---- MODULE Spec2Model ----
(***************************************************************************)
(* EquiReal: risk scoring, deal-term generation and the deal store of      *)
(* equireal.py (JSON file) and equirealty.py (SQLite).                     *)
(*                                                                         *)
(* Python dicts are functions from key strings to values: an absent key is *)
(* a key outside the DOMAIN, dict.get(k, d) is Get(d, k, default).         *)
(*                                                                         *)
(* Units.  Python floats are carried as exact scaled integers:             *)
(*   - a risk score of equireal.py is a whole number of points (the code   *)
(*     only adds integers to 50);                                          *)
(*   - overall_risk and the sub-scores of equirealty.py are in tenths of a *)
(*     point (round(x, 1));                                                *)
(*   - a returned percentage is in tenths of a percent (round(x, 1));      *)
(*   - a dollar figure is in whole dollars (round(x, 0)).                  *)
(***************************************************************************)
EXTENDS Integers, Sequences, FiniteSets, TLC

VARIABLES
    app,            \* which program runs: "equireal" or "equirealty"
    pc,             \* position of the caller of the pure functions
    edits,          \* number of keys the caller has set or removed
    business_data,  \* the record passed to the scorer and the generator
    risk,           \* equireal: risk_score; equirealty: the ai_analysis dict
    deal_terms,     \* the dict returned by generate_deal_terms
    deals,          \* equireal: deals.json; equirealty: the deals table
    businesses,     \* equirealty: the businesses table
    clock,          \* datetime.now(), a tick counter
    next_id,        \* the next fresh uuid
    last_op,        \* the last store operation and its return value
    sessions,       \* equireal.py: each browser session's script run, its
                    \* position inside save_deal / update_deal_status
    users,          \* equirealty.py: the users table
    session_state,  \* equirealty.py: st.session_state of the browser session
    screen,         \* equirealty.py: what the last run of main rendered
    registrations   \* equirealty.py: history of the create_user calls that
                    \* returned a user id, with their arguments

vars == <<app, pc, edits, business_data, risk, deal_terms, deals, businesses, clock,
          next_id, last_op, sessions, users, session_state, screen,
          registrations>>

fnVars == <<pc, edits, business_data, risk, deal_terms>>
uiVars == <<users, session_state, screen, registrations>>
storeVars == <<deals, businesses, clock, next_id, last_op, sessions, users,
               session_state, screen, registrations>>

None == "None"

(***************************************************************************)
(* Bounds of the model.                                                    *)
(***************************************************************************)
MaxEdits == 1
MaxDeals == 2
MaxClock == 4

(***************************************************************************)
(* Python helpers.                                                         *)
(***************************************************************************)
EmptyDict == [k \in {} |-> None]

Get(d, k, default) == IF k \in DOMAIN d THEN d[k] ELSE default

Put(d, k, v) == (k :> v) @@ d

Remove(d, k) == [x \in (DOMAIN d) \ {k} |-> d[x]]

\* {**a, **b}: the keys of both, b winning
Merge(a, b) == b @@ a

\* the truth value of a flag; None (an absent key read without a default)
\* is falsy and is carried as FALSE
Truthy(v) == v = TRUE

Max(a, b) == IF a >= b THEN a ELSE b

Min(a, b) == IF a <= b THEN a ELSE b

\* round(n / d) for d > 0, ties to even as Python's round
RoundHalfEven(n, d) ==
    LET q == n \div d
        r == n % d
    IN  IF 2 * r < d THEN q
        ELSE IF 2 * r > d THEN q + 1
        ELSE IF q % 2 = 0 THEN q ELSE q + 1

\* round(x) of a float product x whose exact value is n / d, d > 0: the
\* nearest integer; when n / d is exactly halfway the floating-point error
\* of the product decides, so the result is either neighbour (up or not)
RoundProduct(n, d, up) ==
    LET q == n \div d
        r == n % d
    IN  IF 2 * r < d THEN q
        ELSE IF 2 * r > d THEN q + 1
        ELSE IF up THEN q + 1 ELSE q

\* how the floating-point errors of monthly_rent and of deferred_amount /
\* monthly_savings fall
FpOutcomes == [rent : BOOLEAN, deferred : BOOLEAN]


(***************************************************************************)
(* equireal.py: calculate_risk_score.                                      *)
(***************************************************************************)
business_type_risk ==
    ("SaaS Startup" :> -12) @@ ("E-commerce" :> -8) @@
    ("Professional Services" :> -10) @@ ("Manufacturing" :> 5) @@
    ("Restaurant" :> 28) @@ ("Retail Store" :> 18) @@
    ("Franchise" :> -8) @@ ("Other" :> 12)

industry_risk ==
    ("Technology" :> -12) @@ ("Healthcare" :> -8) @@ ("Finance" :> -5) @@
    ("Education" :> -3) @@ ("Food & Beverage" :> 22) @@ ("Retail" :> 15) @@
    ("Real Estate" :> 8) @@ ("Other" :> 10)

experience_impact ==
    ("Previous successful exit" :> -25) @@ ("Serial entrepreneur" :> -18) @@
    ("Industry veteran (10+ years)" :> -15) @@ ("First-time founder" :> 12)

\* business_type_risk.get(business_data.get('business_type', 'Other'), 0)
BusinessTypeAdjustment(bd) ==
    Get(business_type_risk, Get(bd, "business_type", "Other"), 0)

\* industry_risk.get(business_data.get('industry', 'Other'), 0)
IndustryAdjustment(bd) ==
    Get(industry_risk, Get(bd, "industry", "Other"), 0)

\* mutant: two tiers exchanged
RevenueTraction_TiersSwapped(current_revenue) ==
    IF current_revenue >= 50000 THEN -20
    ELSE IF current_revenue >= 20000 THEN -10
    ELSE IF current_revenue >= 10000 THEN -15
    ELSE IF current_revenue >= 5000 THEN -5
    ELSE IF current_revenue > 0 THEN 0
    ELSE 15

\* Revenue traction scoring
RevenueTraction(current_revenue) ==
    IF current_revenue >= 50000 THEN -20
    ELSE IF current_revenue >= 20000 THEN -15
    ELSE IF current_revenue >= 10000 THEN -10
    ELSE IF current_revenue >= 5000 THEN -5
    ELSE IF current_revenue > 0 THEN 0
    ELSE 15

\* mutant: the guard tests projected_12m alone
GrowthRealism_Unguarded(current_revenue, projected_12m) ==
    IF projected_12m > 0
    THEN IF projected_12m > 20 * current_revenue THEN 25
         ELSE IF projected_12m > 10 * current_revenue THEN 15
         ELSE IF projected_12m > 5 * current_revenue THEN 8
         ELSE IF projected_12m > 2 * current_revenue THEN -5
         ELSE IF 5 * projected_12m > 6 * current_revenue THEN 0
         ELSE 20
    ELSE 0

\* Revenue growth realism check.  growth_multiple = projected_12m /
\* current_revenue is compared by cross-multiplication (current_revenue > 0
\* in the guarded branch; 1.2 = 6/5).
GrowthRealism(current_revenue, projected_12m) ==
    IF current_revenue > 0 /\ projected_12m > 0
    THEN IF projected_12m > 20 * current_revenue THEN 25
         ELSE IF projected_12m > 10 * current_revenue THEN 15
         ELSE IF projected_12m > 5 * current_revenue THEN 8
         ELSE IF projected_12m > 2 * current_revenue THEN -5
         ELSE IF 5 * projected_12m > 6 * current_revenue THEN 0
         ELSE 20
    ELSE 0

\* Team size indicators
TeamSizeAdjustment(team_size) ==
    IF 8 <= team_size /\ team_size <= 25 THEN -10
    ELSE IF 5 <= team_size /\ team_size <= 7 THEN -5
    ELSE IF 3 <= team_size /\ team_size <= 4 THEN 0
    ELSE IF team_size = 2 THEN 8
    ELSE IF team_size = 1 THEN 18
    ELSE 12

\* Founder experience impact
ExperienceAdjustment(bd) ==
    Get(experience_impact, Get(bd, "founder_experience", "First-time founder"), 0)

\* Funding validation
FundingValidation(funding_raised) ==
    IF funding_raised >= 5000000 THEN -25
    ELSE IF funding_raised >= 2000000 THEN -20
    ELSE IF funding_raised >= 500000 THEN -15
    ELSE IF funding_raised >= 100000 THEN -10
    ELSE IF funding_raised > 0 THEN -5
    ELSE 0

\* Market validation
MarketValidation(has_customers, has_revenue) ==
    IF Truthy(has_customers) /\ Truthy(has_revenue) THEN -12
    ELSE IF Truthy(has_customers) THEN -6
    ELSE IF Truthy(has_revenue) THEN -8
    ELSE 0

\* mutant: the last tier tests runway_months >= 0
CashRunway_NegativeUnpenalised(runway_months) ==
    IF runway_months > 24 THEN -15
    ELSE IF runway_months > 18 THEN -10
    ELSE IF runway_months > 12 THEN -5
    ELSE IF runway_months > 6 THEN 5
    ELSE IF runway_months > 3 THEN 15
    ELSE IF runway_months >= 0 THEN 30
    ELSE 0

\* Cash runway assessment
CashRunway(runway_months) ==
    IF runway_months > 24 THEN -15
    ELSE IF runway_months > 18 THEN -10
    ELSE IF runway_months > 12 THEN -5
    ELSE IF runway_months > 6 THEN 5
    ELSE IF runway_months > 3 THEN 15
    ELSE 30

\* base_score before the final clamp, with the growth-realism step as given
BaseScore(bd, growth) ==
    50
    + BusinessTypeAdjustment(bd)
    + IndustryAdjustment(bd)
    + RevenueTraction(Get(bd, "current_revenue", 0))
    + growth
    + TeamSizeAdjustment(Get(bd, "team_size", 1))
    + ExperienceAdjustment(bd)
    + FundingValidation(Get(bd, "funding_raised", 0))
    + MarketValidation(Get(bd, "has_customers", FALSE), Get(bd, "has_revenue", FALSE))
    + CashRunway(Get(bd, "runway_months", 0))

\* the growth-realism step on the record's two revenue fields
GrowthStep(bd) ==
    GrowthRealism(Get(bd, "current_revenue", 0), Get(bd, "projected_revenue_12m", 0))

\* mutant: the upper clamp is missing
FinalScore_NoUpperClamp(base_score) == Max(10, base_score)

\* mutant: the lower clamp is missing
FinalScore_NoLowerClamp(base_score) == Min(90, base_score)

\* final_score = max(10, min(90, base_score)); round(final_score, 1) of an
\* int is that int
FinalScore(base_score) == Max(10, Min(90, base_score))

calculate_risk_score(bd) == FinalScore(BaseScore(bd, GrowthStep(bd)))

(***************************************************************************)
(* equireal.py: generate_deal_terms.  risk_score is a whole number of      *)
(* points; unrounded percentages are in hundredths of a percent.           *)
(***************************************************************************)
\* mutant: the multiplier is (risk_score - 50) / 25
RiskShift_HalfScale(risk_score, slope) == ((risk_score - 50) * slope * 100) \div 25

\* risk_multiplier * slope = (risk_score - 50) / 50 * slope, in hundredths
RiskShift(risk_score, slope) == ((risk_score - 50) * slope * 100) \div 50

\* mutant: the upper clamp is missing
UpfrontRentPercent_NoCap(risk_score) ==
    Max(2000, 3000 + RiskShift(risk_score, 15))

\* base_upfront_rent + risk_multiplier * 15, clamped to [20, 50]
UpfrontRentPercent(risk_score) ==
    Max(2000, Min(5000, 3000 + RiskShift(risk_score, 15)))

\* mutant: the slope of the equity percentage is negative
EquityPercent_Inverted(risk_score) ==
    Max(200, Min(1200, 500 - RiskShift(risk_score, 4)))

\* base_equity + risk_multiplier * 4, clamped to [2, 12]
EquityPercent(risk_score) ==
    Max(200, Min(1200, 500 + RiskShift(risk_score, 4)))

\* base_revenue_share + risk_multiplier * 2, clamped to [1, 6]
RevenueSharePercent(risk_score) ==
    Max(100, Min(600, 300 + RiskShift(risk_score, 2)))

\* mutant: the default duration is that of the SaaS branch
RevenueShareYears_DefaultFour(bd) ==
    IF Get(bd, "business_type", None) = "Restaurant" THEN 2 ELSE 4

\* revenue_share_years = base_revenue_years (3), 4 and 2 by business_type
RevenueShareYears(bd) ==
    IF Get(bd, "business_type", None) \in {"SaaS Startup", "E-commerce"} THEN 4
    ELSE IF Get(bd, "business_type", None) = "Restaurant" THEN 2
    ELSE 3

\* annual_market_rent = space_size * rate
AnnualMarketRent(space_size, rate) == space_size * rate

\* mutant: the quotient is truncated, not rounded
MonthlyMarketRent_Truncated(annual) == annual \div 12

\* round(annual_market_rent / 12, 0)
MonthlyMarketRent(annual) == RoundHalfEven(annual, 12)

\* round(annual_market_rent / 12 * (upfront_rent_percent / 100), 0), with
\* the unrounded percentage in hundredths
MonthlyRent(annual, upfront, fp) ==
    RoundProduct(annual * upfront, 12 * 10000, fp.rent)

\* mutant: the deferred amount is the share paid, not the share left
DeferredAmount_SharePaid(annual, upfront, fp) ==
    RoundProduct(annual * upfront, 12 * 10000, fp.deferred)

\* round(monthly_market_rent - monthly_rent, 0), both unrounded
DeferredAmount(annual, upfront, fp) ==
    RoundProduct(annual * (10000 - upfront), 12 * 10000, fp.deferred)

\* mutant: the floor of 5000 is missing
RevenueTrigger_NoFloor(current_revenue) == RoundHalfEven(3 * current_revenue, 2)

\* round(max(current_revenue * 1.5, 5000), 0)
RevenueTrigger(current_revenue) ==
    RoundHalfEven(Max(3 * current_revenue, 2 * 5000), 2)

generate_deal_terms(bd, risk_score, fp) ==
    LET space_size == Get(bd, "space_size", 1000)
        annual == AnnualMarketRent(space_size, 25)
        upfront == UpfrontRentPercent(risk_score)
    IN  ("risk_score" :> risk_score) @@
        ("upfront_rent_percent" :> RoundHalfEven(upfront, 10)) @@
        ("equity_percent" :> RoundHalfEven(EquityPercent(risk_score), 10)) @@
        ("revenue_share_percent" :> RoundHalfEven(RevenueSharePercent(risk_score), 10)) @@
        ("revenue_share_years" :> RevenueShareYears(bd)) @@
        ("monthly_rent" :> MonthlyRent(annual, upfront, fp)) @@
        ("monthly_market_rent" :> MonthlyMarketRent(annual)) @@
        ("deferred_amount" :> DeferredAmount(annual, upfront, fp)) @@
        ("annual_market_rent" :> annual) @@
        ("revenue_trigger" :> RevenueTrigger(Get(bd, "current_revenue", 0))) @@
        ("space_size" :> space_size)

(***************************************************************************)
(* equirealty.py: AIAnalysisEngine.calculate_risk_score.  Scores are in    *)
(* tenths of a point.                                                      *)
(***************************************************************************)
industry_risks ==
    ("Software as a Service (SaaS)" :> 25) @@ ("FinTech" :> 35) @@
    ("E-commerce" :> 45) @@ ("Restaurants" :> 70) @@
    ("Professional Services" :> 30) @@ ("Manufacturing" :> 50)

\* mutant: an industry outside the table scores 90
IndustryRisk_DefaultNinety(bd) == Get(industry_risks, Get(bd, "industry", None), 90)

\* industry_risks.get(business_data.get('industry'), 50)
IndustryRisk(bd) == Get(industry_risks, Get(bd, "industry", None), 50)

\* Financial risk calculation
FinancialRisk(financial_data) ==
    LET current_revenue == Get(financial_data, "current_revenue", 0)
        tier == IF current_revenue > 100000 THEN -20
                ELSE IF current_revenue > 50000 THEN -10
                ELSE IF current_revenue = 0 THEN 20
                ELSE 0
        profit == IF Truthy(Get(financial_data, "is_profitable", FALSE)) THEN -15 ELSE 0
    IN  50 + tier + profit

\* Team risk assessment
TeamRisk(bd) ==
    LET team_size == Get(bd, "team_size", 1)
    IN  50 + (IF 5 <= team_size /\ team_size <= 50 THEN -15
              ELSE IF team_size < 3 THEN 20
              ELSE 0)

\* mutant: the weights of the industry and the team scores are exchanged
WeightedRisk_TeamHeavy(industry, financial, team) ==
    2 * industry + 4 * financial + 4 * team

\* industry_risk * 0.4 + financial_risk * 0.4 + team_risk * 0.2, in tenths
WeightedRisk(industry, financial, team) == 4 * industry + 4 * financial + 2 * team

\* max(10, min(90, overall_risk)), in tenths
ClampOverall(overall) == Max(100, Min(900, overall))

AIAnalysisEngine_calculate_risk_score(bd) ==
    LET financial_data == Get(bd, "financial_data", EmptyDict)
        industry == IndustryRisk(bd)
        financial == FinancialRisk(financial_data)
        team == TeamRisk(bd)
    IN  ("overall_risk" :> ClampOverall(WeightedRisk(industry, financial, team))) @@
        ("industry_risk" :> 10 * industry) @@
        ("financial_risk" :> 10 * financial) @@
        ("team_risk" :> 10 * team) @@
        ("confidence_score" :> 850) @@
        ("risk_trend" :> "Stable Risk")

(***************************************************************************)
(* equirealty.py: BusinessApplication.generate_deal_terms.  overall_risk   *)
(* is in tenths of a point; unrounded upfront rent and equity are in       *)
(* hundredths of a percent, revenue share in thousandths.                  *)
(***************************************************************************)
\* risk_factor * slope = (risk_score - 50) / 50 * slope, in 1/(10 * unit)
\* of a percent for a risk score given in tenths
RiskFactorShift(overall_risk, slope, unit) ==
    ((overall_risk - 500) * slope * unit) \div 500

\* mutant: the reductions are added, not subtracted
FinancialAdjustment_Surcharge(financial_data, if_profitable, if_high_revenue) ==
    0 - (IF Truthy(Get(financial_data, "is_profitable", FALSE)) THEN if_profitable ELSE 0)
      - (IF Get(financial_data, "current_revenue", 0) > 100000 THEN if_high_revenue ELSE 0)

\* the flat reductions of the financial adjustments
FinancialAdjustment(financial_data, if_profitable, if_high_revenue) ==
    (IF Truthy(Get(financial_data, "is_profitable", FALSE)) THEN if_profitable ELSE 0)
    + (IF Get(financial_data, "current_revenue", 0) > 100000 THEN if_high_revenue ELSE 0)

\* 30 + risk_factor * 20, minus 5 and 8, clamped to [15, 55]; hundredths
EntUpfrontRentPercent(financial_data, overall_risk) ==
    Max(1500, Min(5500, 3000 + RiskFactorShift(overall_risk, 20, 100)
                        - FinancialAdjustment(financial_data, 500, 800)))

\* 5 + risk_factor * 5, minus 1 and 1.5, clamped to [1, 12]; hundredths
EntEquityPercent(financial_data, overall_risk) ==
    Max(100, Min(1200, 500 + RiskFactorShift(overall_risk, 5, 100)
                       - FinancialAdjustment(financial_data, 100, 150)))

\* 3 + risk_factor * 2, clamped to [0.5, 6]; thousandths
EntRevenueSharePercent(overall_risk) ==
    Max(500, Min(6000, 3000 + RiskFactorShift(overall_risk, 2, 1000)))

BusinessApplication_generate_deal_terms(bd, ai_analysis, fp) ==
    LET risk_score == ai_analysis["overall_risk"]
        financial_data == Get(bd, "financial_data", EmptyDict)
        space_size == Get(bd, "space_size", 1000)
        annual == AnnualMarketRent(space_size, 35)
        upfront == EntUpfrontRentPercent(financial_data, risk_score)
    IN  ("risk_score" :> risk_score) @@
        ("upfront_rent_percent" :> RoundHalfEven(upfront, 10)) @@
        ("equity_percent" :>
            RoundHalfEven(EntEquityPercent(financial_data, risk_score), 10)) @@
        ("revenue_share_percent" :>
            RoundHalfEven(EntRevenueSharePercent(risk_score), 100)) @@
        ("monthly_rent" :> MonthlyRent(annual, upfront, fp)) @@
        ("monthly_market_rent" :> MonthlyMarketRent(annual)) @@
        ("monthly_savings" :> DeferredAmount(annual, upfront, fp)) @@
        ("space_size" :> space_size)

(***************************************************************************)
(* The callers of the pure functions: a record is built one key at a time, *)
(* scored, and handed to the generator with the score or with any other    *)
(* risk score.                                                             *)
(***************************************************************************)
Apps == {"equireal", "equirealty"}

BUSINESS_TYPES_A ==
    {"SaaS Startup", "E-commerce", "Restaurant", "Retail Store", "Franchise",
     "Professional Services", "Manufacturing", "Other"}

INDUSTRIES_A ==
    {"Technology", "Food & Beverage", "Retail", "Healthcare", "Finance",
     "Education", "Real Estate", "Other"}

FOUNDER_EXPERIENCE ==
    {"First-time founder", "Serial entrepreneur", "Industry veteran (10+ years)",
     "Previous successful exit"}

INDUSTRIES ==
    {"Software as a Service (SaaS)", "FinTech", "HealthTech", "E-commerce",
     "Professional Services", "Manufacturing", "Restaurants", "Retail Store",
     "Real Estate", "Construction", "Healthcare Services", "Legal Services",
     "Marketing Agency", "Consulting", "Other"}

\* strings outside the recognized sets
UnknownTypes == {"Bakery"}
UnknownIndustries == {"Mining"}

RevenueValues == {-1, 0, 1, 4999, 5000, 10000, 20000, 50000, 60000}
ProjectedValues == {-1, 0, 10000, 12000, 2000000}
RunwayValues == {-1, 0, 2, 3, 4, 7, 12, 13, 19, 20, 25}
TeamSizes == {0, 1, 2, 3, 5, 8, 15, 25, 26}
FundingValues == {-1, 0, 1, 100000, 500000, 2000000, 3000000, 5000000}
SpaceSizes == {100, 102, 1000, 1500, 5000}

EntRevenueValues == {-1, 0, 1, 50000, 50001, 100000, 100001}
EntTeamSizes == {0, 1, 2, 3, 4, 5, 50, 51}
FinancialDatas ==
    {EmptyDict}
    \cup {("current_revenue" :> c) : c \in EntRevenueValues}
    \cup {("is_profitable" :> p) : p \in BOOLEAN}
    \cup {("current_revenue" :> c) @@ ("is_profitable" :> p) :
            c \in EntRevenueValues, p \in BOOLEAN}

\* the keys the scorer and the generator of each program read
Keys(a) ==
    IF a = "equireal"
    THEN {"business_type", "industry", "current_revenue", "projected_revenue_12m",
          "burn_rate", "runway_months", "team_size", "founder_experience",
          "funding_raised", "has_funding", "has_customers", "has_revenue",
          "space_size"}
    ELSE {"industry", "team_size", "space_size", "financial_data"}

FieldValues(a, k) ==
    IF a = "equireal"
    THEN CASE k = "business_type" -> BUSINESS_TYPES_A \cup UnknownTypes
           [] k = "industry" -> INDUSTRIES_A \cup UnknownIndustries
           [] k = "current_revenue" -> RevenueValues
           [] k = "projected_revenue_12m" -> ProjectedValues
           [] k = "burn_rate" -> {0, 5000}
           [] k = "runway_months" -> RunwayValues
           [] k = "team_size" -> TeamSizes
           [] k = "founder_experience" -> FOUNDER_EXPERIENCE
           [] k = "funding_raised" -> FundingValues
           [] k = "has_funding" -> BOOLEAN
           [] k = "has_customers" -> BOOLEAN
           [] k = "has_revenue" -> BOOLEAN
           [] k = "space_size" -> SpaceSizes
    ELSE CASE k = "industry" -> INDUSTRIES \cup UnknownIndustries
           [] k = "team_size" -> EntTeamSizes
           [] k = "space_size" -> SpaceSizes
           [] k = "financial_data" -> FinancialDatas

\* show_tenant_form as first rendered
FormDefaults ==
    ("business_type" :> "SaaS Startup") @@ ("industry" :> "Technology") @@
    ("space_size" :> 1500) @@ ("current_revenue" :> 0) @@
    ("projected_revenue_12m" :> 10000) @@ ("burn_rate" :> 5000) @@
    ("runway_months" :> 12) @@ ("funding_raised" :> 0) @@ ("team_size" :> 5) @@
    ("founder_experience" :> "First-time founder") @@
    ("has_revenue" :> FALSE) @@ ("has_customers" :> FALSE)

ScenarioA ==
    ("business_type" :> "Restaurant") @@ ("industry" :> "Food & Beverage") @@
    ("current_revenue" :> 0) @@ ("team_size" :> 1) @@
    ("founder_experience" :> "First-time founder") @@ ("funding_raised" :> 0) @@
    ("runway_months" :> 2) @@ ("has_customers" :> FALSE) @@ ("has_revenue" :> FALSE)

ScenarioB ==
    ("business_type" :> "SaaS Startup") @@ ("industry" :> "Technology") @@
    ("current_revenue" :> 60000) @@ ("team_size" :> 15) @@
    ("founder_experience" :> "Previous successful exit") @@
    ("funding_raised" :> 3000000) @@ ("runway_months" :> 20) @@
    ("has_customers" :> TRUE) @@ ("has_revenue" :> TRUE)

\* a record in the middle of the scale
MidRecord ==
    ("business_type" :> "Manufacturing") @@ ("industry" :> "Education") @@
    ("space_size" :> 1000) @@ ("current_revenue" :> 5000) @@
    ("projected_revenue_12m" :> 12000) @@ ("runway_months" :> 12) @@
    ("funding_raised" :> 0) @@ ("team_size" :> 3) @@
    ("founder_experience" :> "Serial entrepreneur") @@
    ("has_revenue" :> TRUE) @@ ("has_customers" :> FALSE)

\* the application wizard as first rendered, and two ends of the scale
WizardDefaults ==
    ("industry" :> "Software as a Service (SaaS)") @@ ("space_size" :> 1500) @@
    ("team_size" :> 5) @@
    ("financial_data" :> (("current_revenue" :> 0) @@ ("is_profitable" :> FALSE)))

EntHigh ==
    ("industry" :> "Restaurants") @@ ("space_size" :> 1000) @@ ("team_size" :> 1) @@
    ("financial_data" :> (("current_revenue" :> 0) @@ ("is_profitable" :> FALSE)))

EntLow ==
    ("industry" :> "Software as a Service (SaaS)") @@ ("space_size" :> 5000) @@
    ("team_size" :> 10) @@
    ("financial_data" :> (("current_revenue" :> 100001) @@ ("is_profitable" :> TRUE)))

BaseRecords(a) ==
    IF a = "equireal"
    THEN {EmptyDict, FormDefaults, ScenarioA, ScenarioB, MidRecord}
    ELSE {EmptyDict, WizardDefaults, EntHigh, EntLow}

\* risk scores a caller may pass to the generator: points for equireal.py,
\* tenths of a point for equirealty.py
RiskInputs(a) ==
    IF a = "equireal"
    THEN {-1000, 0, 10, 37, 50, 90, 100, 1000}
    ELSE {-10000, 0, 100, 370, 500, 900, 1000, 10000}

\* the browser sessions whose script runs share deals.json
Sessions == {"s1", "s2"}

\* a session outside save_deal and update_deal_status
IdleSession == [pc |-> "idle", deals |-> <<>>, op |-> [op |-> "none"], done |-> {}]

StoreIdle ==
    /\ deals = <<>>
    /\ businesses = <<>>
    /\ clock = 0
    /\ next_id = 1
    /\ last_op = [op |-> "none"]
    /\ sessions = [s \in Sessions |-> IdleSession]
    /\ users = <<>>
    /\ session_state = EmptyDict
    /\ screen = "none"
    /\ registrations = {}

FnInit ==
    /\ app \in Apps
    /\ pc = "build"
    /\ edits = 0
    /\ business_data \in BaseRecords(app)
    /\ risk = None
    /\ deal_terms = None
    /\ StoreIdle

\* the caller sets one key of the record
SetKey ==
    /\ pc = "build"
    /\ edits < MaxEdits
    /\ \E k \in Keys(app) : \E v \in FieldValues(app, k) :
        business_data' = Put(business_data, k, v)
    /\ edits' = edits + 1
    /\ UNCHANGED <<app, pc, risk, deal_terms>>
    /\ UNCHANGED storeVars

\* the caller leaves one key out of the record
DropKey ==
    /\ pc = "build"
    /\ edits < MaxEdits
    /\ \E k \in DOMAIN business_data :
        business_data' = Remove(business_data, k)
    /\ edits' = edits + 1
    /\ UNCHANGED <<app, pc, risk, deal_terms>>
    /\ UNCHANGED storeVars

\* risk_score = calculate_risk_score(business_data)
ScoreRisk ==
    /\ pc = "build"
    /\ risk' = IF app = "equireal"
               THEN calculate_risk_score(business_data)
               ELSE AIAnalysisEngine_calculate_risk_score(business_data)
    /\ pc' = "scored"
    /\ UNCHANGED <<app, edits, business_data, deal_terms>>
    /\ UNCHANGED storeVars

\* deal_terms = generate_deal_terms(business_data, risk_score), with the
\* score just computed
GenerateTerms ==
    /\ pc = "scored"
    /\ \E fp \in FpOutcomes :
        deal_terms' = IF app = "equireal"
                      THEN generate_deal_terms(business_data, risk, fp)
                      ELSE BusinessApplication_generate_deal_terms(business_data, risk, fp)
    /\ pc' = "done"
    /\ UNCHANGED <<app, edits, business_data, risk>>
    /\ UNCHANGED storeVars

\* generate_deal_terms called with a risk score of the caller's choosing
GenerateTermsFor ==
    /\ pc = "scored"
    /\ \E r \in RiskInputs(app) : \E fp \in FpOutcomes :
        /\ risk' = IF app = "equireal" THEN r ELSE Put(risk, "overall_risk", r)
        /\ deal_terms' = IF app = "equireal"
                         THEN generate_deal_terms(business_data, r, fp)
                         ELSE BusinessApplication_generate_deal_terms(
                                  business_data, Put(risk, "overall_risk", r), fp)
    /\ pc' = "given"
    /\ UNCHANGED <<app, edits, business_data>>
    /\ UNCHANGED storeVars

FnNext == SetKey \/ DropKey \/ ScoreRisk \/ GenerateTerms \/ GenerateTermsFor

SpecFn == FnInit /\ [][FnNext]_vars

(***************************************************************************)
(* equireal.py: the deal store (deals.json) and the handlers that write it.*)
(* A timestamp is the tick of the clock at which datetime.now() was read;  *)
(* a uuid is the next unused number.                                       *)
(***************************************************************************)
\* the keys of the dict generate_deal_terms returns
TermFields ==
    {"risk_score", "upfront_rent_percent", "equity_percent", "revenue_share_percent",
     "revenue_share_years", "monthly_rent", "monthly_market_rent", "deferred_amount",
     "annual_market_rent", "revenue_trigger", "space_size"}

\* the keys of business_data the template of create_deal_proposal reads
ProposalFields ==
    {"business_name", "business_type", "industry", "location", "space_size",
     "lease_duration", "team_size", "founder_experience", "business_model",
     "current_revenue", "projected_revenue_12m", "projected_revenue_24m",
     "burn_rate", "runway_months", "funding_raised", "has_funding", "has_revenue",
     "has_customers"}

\* the text of create_deal_proposal: the values substituted into the fixed
\* template (every computed figure of the text is a function of these);
\* Generated and Valid Until (30 days later) are read from datetime.now()
create_deal_proposal(bd, terms, now) ==
    ("generated" :> now) @@
    ("valid_until" :> now + 30) @@
    ("proposal_id" :> bd["id"]) @@
    ("business" :> [k \in DOMAIN bd \cap ProposalFields |-> bd[k]]) @@
    ("terms" :> [k \in DOMAIN terms \cap TermFields |-> terms[k]])

\* the text of create_contract_template: the values substituted; both dates
\* are read from datetime.now()
create_contract_template(deal, now) ==
    ("entered_on" :> now) @@ ("date" :> now) @@
    ("tenant" :> deal["business_name"]) @@ ("premises" :> deal["location"]) @@
    ("space" :> deal["space_size"]) @@
    ("base_rent" :> Get(deal, "monthly_rent", 0)) @@
    ("market_rate" :> Get(deal, "monthly_market_rent", 0)) @@
    ("upfront_percentage" :> Get(deal, "upfront_rent_percent", 300)) @@
    ("deferred_amount" :> Get(deal, "deferred_amount", 0)) @@
    ("equity_percentage" :> Get(deal, "equity_percent", 50)) @@
    ("revenue_share" :> Get(deal, "revenue_share_percent", 30)) @@
    ("duration" :> Get(deal, "revenue_share_years", 3)) @@
    ("threshold" :> Get(deal, "revenue_trigger", 5000)) @@
    ("agreement_id" :> deal["id"])

\* deal_record of save_deal
DealRecord(bd, terms, proposal, now) ==
    Merge(Merge(bd, terms),
          ("proposal" :> proposal) @@ ("created_at" :> now) @@ ("updated_at" :> now))

\* save_deal: load_deals, append, save_deals
save_deal(stored, bd, terms, proposal, now) ==
    Append(stored, DealRecord(bd, terms, proposal, now))

\* mutant: the matching record's created_at is rewritten too
StatusUpdate_TouchesCreatedAt(deal, new_status, now) ==
    LET stamped == Put(Put(Put(deal, "status", new_status), "updated_at", now),
                       "created_at", now)
    IN  IF new_status = "approved" THEN Put(stamped, "approved_at", now)
        ELSE IF new_status = "rejected" THEN Put(stamped, "rejected_at", now)
        ELSE stamped

\* the body of update_deal_status's loop for the matching record
StatusUpdate(deal, new_status, now) ==
    LET stamped == Put(Put(deal, "status", new_status), "updated_at", now)
    IN  IF new_status = "approved" THEN Put(stamped, "approved_at", now)
        ELSE IF new_status = "rejected" THEN Put(stamped, "rejected_at", now)
        ELSE stamped

\* the index of the first record with the id, 0 when there is none
FirstWithId(stored, deal_id) ==
    IF \E i \in 1..Len(stored) : Get(stored[i], "id", None) = deal_id
    THEN CHOOSE i \in 1..Len(stored) :
            /\ Get(stored[i], "id", None) = deal_id
            /\ \A j \in 1..(i - 1) : Get(stored[j], "id", None) # deal_id
    ELSE 0

\* update_deal_status: load_deals, update the first match, save_deals
update_deal_status(stored, deal_id, new_status, now) ==
    LET i == FirstWithId(stored, deal_id)
    IN  IF i = 0 THEN stored
        ELSE [stored EXCEPT ![i] = StatusUpdate(stored[i], new_status, now)]

\* the values the form of show_tenant_form is submitted with
FormBusinessTypes == {"SaaS Startup", "Restaurant"}
FormRevenues == {0, 60000}

\* business_data of show_tenant_form
FormBusinessData(id, business_type, current_revenue, now) ==
    ("id" :> id) @@ ("business_name" :> "Acme") @@
    ("business_type" :> business_type) @@ ("industry" :> "Technology") @@
    ("location" :> "Austin") @@ ("space_size" :> 1500) @@
    ("lease_duration" :> "1 year") @@ ("current_revenue" :> current_revenue) @@
    ("projected_revenue_12m" :> 10000) @@ ("projected_revenue_24m" :> 20000) @@
    ("burn_rate" :> 5000) @@ ("runway_months" :> 12) @@ ("funding_raised" :> 0) @@
    ("team_size" :> 5) @@ ("founder_experience" :> "First-time founder") @@
    ("has_funding" :> FALSE) @@ ("has_revenue" :> FALSE) @@
    ("has_customers" :> FALSE) @@ ("business_model" :> "B2B SaaS") @@
    ("target_market" :> "") @@ ("competitive_advantage" :> "") @@
    ("growth_strategy" :> "") @@ ("timestamp" :> now) @@ ("status" :> "pending")

Statuses == {"approved", "rejected"}
\* every uuid a run can draw
DealIds == 1..(3 * MaxDeals)

\* show_tenant_form, the form submitted: score, generate, render, save_deal
SubmitForm ==
    /\ app = "equireal"
    /\ Len(deals) < MaxDeals
    /\ clock < MaxClock
    /\ \E business_type \in FormBusinessTypes, current_revenue \in FormRevenues,
          fp \in FpOutcomes :
        LET bd == FormBusinessData(next_id, business_type, current_revenue, clock + 1)
            risk_score == calculate_risk_score(bd)
            terms == generate_deal_terms(bd, risk_score, fp)
            proposal == create_deal_proposal(bd, terms, clock + 1)
        IN  /\ deals' = save_deal(deals, bd, terms, proposal, clock + 1)
            /\ last_op' = [op |-> "save_deal", id |-> next_id,
                           risk_score |-> risk_score, deal_terms |-> terms,
                           result |-> DealRecord(bd, terms, proposal, clock + 1)]
    /\ clock' = clock + 1
    /\ next_id' = next_id + 1
    /\ UNCHANGED <<app, businesses, sessions>>
    /\ UNCHANGED fnVars
    /\ UNCHANGED uiVars

\* the Approve and Reject buttons of show_deal_card and show_deal_details:
\* update_deal_status(deal['id'], 'approved' | 'rejected')
UpdateDealStatus ==
    /\ app = "equireal"
    /\ clock < MaxClock
    /\ \E deal_id \in DealIds, new_status \in Statuses :
        /\ deals' = update_deal_status(deals, deal_id, new_status, clock + 1)
        /\ last_op' = [op |-> "update_deal_status", id |-> deal_id,
                       status |-> new_status, result |-> None]
    /\ clock' = clock + 1
    /\ UNCHANGED <<app, businesses, next_id, sessions>>
    /\ UNCHANGED fnVars
    /\ UNCHANGED uiVars

\* show_deal_card and show_deal_details render the contract of a listed deal
\* for its download button: contract = create_contract_template(deal)
RenderContract ==
    /\ app = "equireal"
    /\ clock < MaxClock
    /\ \E i \in 1..Len(deals) :
        last_op' = [op |-> "create_contract_template", id |-> deals[i]["id"],
                    deal |-> deals[i],
                    result |-> create_contract_template(deals[i], clock + 1)]
    /\ clock' = clock + 1
    /\ UNCHANGED <<app, deals, businesses, next_id, sessions>>
    /\ UNCHANGED fnVars
    /\ UNCHANGED uiVars

(***************************************************************************)
(* equirealty.py: DatabaseManager and the handlers that write the tables.  *)
(***************************************************************************)
\* the text of BusinessApplication.generate_proposal: the values substituted
EntProposal(bd, ai_analysis, terms, proposal_id, now) ==
    ("proposal_id" :> proposal_id) @@ ("generated" :> now) @@
    ("business_name" :> bd["business_name"]) @@ ("industry" :> bd["industry"]) @@
    ("location" :> bd["location"]) @@ ("space_size" :> bd["space_size"]) @@
    ("overall_risk" :> ai_analysis["overall_risk"]) @@
    ("upfront_rent_percent" :> terms["upfront_rent_percent"]) @@
    ("monthly_rent" :> terms["monthly_rent"]) @@
    ("equity_percent" :> terms["equity_percent"]) @@
    ("revenue_share_percent" :> terms["revenue_share_percent"]) @@
    ("monthly_savings" :> terms["monthly_savings"])

\* DatabaseManager.save_business: INSERT INTO businesses
DatabaseManager_save_business(table, business_id, bd, now) ==
    Append(table,
           ("id" :> business_id) @@ ("user_id" :> bd["user_id"]) @@
           ("business_name" :> bd["business_name"]) @@
           ("industry" :> bd["industry"]) @@ ("location" :> bd["location"]) @@
           ("space_size" :> bd["space_size"]) @@
           ("financial_data" :> Get(bd, "financial_data", EmptyDict)) @@
           ("created_at" :> now))

\* json.dumps of a dict: the text, carried as the set of its members
json_dumps(d) == {<<k, d[k]>> : k \in DOMAIN d}

\* json.loads of such a text
json_loads(text) ==
    [k \in {member[1] : member \in text} |->
        (CHOOSE member \in text : member[1] = k)[2]]

\* mutant: the risk_score column is not filled
DatabaseManager_save_deal_RiskOmitted(table, deal_id, deal_data, now) ==
    Append(table,
           ("id" :> deal_id) @@ ("business_id" :> deal_data["business_id"]) @@
           ("deal_terms" :> json_dumps(deal_data["deal_terms"])) @@
           ("proposal" :> deal_data["proposal"]) @@ ("status" :> "pending") @@
           ("risk_score" :> 0) @@ ("created_at" :> now))

\* DatabaseManager.save_deal: INSERT INTO deals; status takes the column's
\* DEFAULT 'pending', created_at its DEFAULT CURRENT_TIMESTAMP
DatabaseManager_save_deal(table, deal_id, deal_data, now) ==
    Append(table,
           ("id" :> deal_id) @@ ("business_id" :> deal_data["business_id"]) @@
           ("deal_terms" :> json_dumps(deal_data["deal_terms"])) @@
           ("proposal" :> deal_data["proposal"]) @@ ("status" :> "pending") @@
           ("risk_score" :> deal_data["risk_score"]) @@ ("created_at" :> now))

\* mutant: the UPDATE has no WHERE clause
DatabaseManager_update_deal_status_AllRows(table, deal_id, status) ==
    [i \in 1..Len(table) |-> Put(table[i], "status", status)]

\* DatabaseManager.update_deal_status: UPDATE deals SET status = ? WHERE id = ?
DatabaseManager_update_deal_status(table, deal_id, status) ==
    [i \in 1..Len(table) |->
        IF table[i]["id"] = deal_id THEN Put(table[i], "status", status) ELSE table[i]]

\* cursor.rowcount > 0
RowsMatched(table, deal_id) == \E i \in 1..Len(table) : table[i]["id"] = deal_id

\* the values the application wizard is completed with
WizardIndustries == {"Software as a Service (SaaS)", "Restaurants"}
WizardRevenues == {0, 100001}

\* complete_data of step_3_review_submit
WizardData(industry, current_revenue) ==
    ("business_name" :> "Acme") @@ ("business_type" :> "SaaS Startup") @@
    ("industry" :> industry) @@ ("location" :> "Austin, TX, USA") @@
    ("space_size" :> 1500) @@ ("team_size" :> 5) @@
    ("founding_date" :> "2020-01-01") @@ ("mission_statement" :> "m") @@
    ("financial_data" :>
        (("current_revenue" :> current_revenue) @@ ("annual_revenue" :> 0) @@
         ("monthly_expenses" :> 0) @@ ("cash_on_hand" :> 0) @@
         ("runway_months" :> 0) @@ ("funding_raised" :> 0) @@
         ("is_profitable" :> FALSE) @@ ("has_recurring_revenue" :> FALSE) @@
         ("num_customers" :> 0) @@ ("revenue_growth_rate" :> 0))) @@
    ("user_id" :> "demo_user")

\* step_3_review_submit, the button pressed: score, generate, render,
\* save_business, save_deal
SubmitApplication ==
    /\ app = "equirealty"
    /\ Len(deals) < MaxDeals
    /\ clock < MaxClock
    /\ \E industry \in WizardIndustries, current_revenue \in WizardRevenues,
          fp \in FpOutcomes :
        LET complete_data == WizardData(industry, current_revenue)
            ai_analysis == AIAnalysisEngine_calculate_risk_score(complete_data)
            terms == BusinessApplication_generate_deal_terms(complete_data, ai_analysis, fp)
            proposal == EntProposal(complete_data, ai_analysis, terms, next_id + 2,
                                    clock + 1)
            deal_data == [business_id |-> next_id, deal_terms |-> terms,
                          proposal |-> proposal,
                          risk_score |-> ai_analysis["overall_risk"]]
        IN  /\ businesses' = DatabaseManager_save_business(businesses, next_id,
                                                          complete_data, clock + 1)
            /\ deals' = DatabaseManager_save_deal(deals, next_id + 1, deal_data, clock + 1)
            /\ last_op' = [op |-> "save_deal", id |-> next_id + 1,
                           risk_score |-> ai_analysis["overall_risk"],
                           deal_terms |-> terms, result |-> next_id + 1]
    /\ clock' = clock + 1
    /\ next_id' = next_id + 3
    /\ UNCHANGED <<app, sessions>>
    /\ UNCHANGED fnVars
    /\ UNCHANGED uiVars

\* the Approve and Reject buttons of LandlordDashboard.show_deal_card:
\* self.db.update_deal_status(deal.get('id'), 'approved' | 'rejected')
UpdateDealStatusDb ==
    /\ app = "equirealty"
    /\ clock < MaxClock
    /\ \E deal_id \in DealIds, status \in Statuses :
        /\ deals' = DatabaseManager_update_deal_status(deals, deal_id, status)
        /\ last_op' = [op |-> "update_deal_status", id |-> deal_id, status |-> status,
                       result |-> RowsMatched(deals, deal_id)]
    /\ clock' = clock + 1
    /\ UNCHANGED <<app, businesses, next_id, sessions>>
    /\ UNCHANGED fnVars
    /\ UNCHANGED uiVars

Init ==
    /\ app \in Apps
    /\ pc = "idle"
    /\ edits = 0
    /\ business_data = None
    /\ risk = None
    /\ deal_terms = None
    /\ StoreIdle

Next ==
    \/ SubmitForm
    \/ UpdateDealStatus
    \/ RenderContract
    \/ SubmitApplication
    \/ UpdateDealStatusDb

Spec == Init /\ [][Next]_vars

(***************************************************************************)
(* equireal.py under concurrent sessions.  Each session's script runs in   *)
(* its own thread; save_deal and update_deal_status are load_deals, a      *)
(* change of the loaded list, and save_deals, with no lock around them.    *)
(* deals is the content of deals.json as load_deals parses it: <<>> is the *)
(* empty list and also a file that does not decode (load_deals returns []  *)
(* on JSONDecodeError), such as one truncated by open(DEALS_FILE, 'w').    *)
(***************************************************************************)
\* load_deals
load_deals(file) == file

\* save_deals, json.dump into the file opened (and truncated) earlier.  When
\* another writer has dumped since, this dump overwrites that content from
\* offset 0: a longer list replaces it, a shorter one leaves its tail behind
\* and the file no longer decodes, and for lists of the same number of
\* records either happens.
save_deals(file, loaded) ==
    IF file = <<>> \/ Len(loaded) > Len(file) THEN {loaded}
    ELSE IF Len(loaded) < Len(file) THEN {<<>>}
    ELSE {loaded, <<>>}

\* the ids of the deals a dashboard rendered from the file shows
ShownIds(file) == {file[i]["id"] : i \in 1..Len(file)}

\* show_tenant_form in session s, up to the append of save_deal
BeginSaveDeal(s) ==
    /\ sessions[s].pc = "idle"
    /\ next_id <= MaxDeals
    /\ clock < MaxClock
    /\ \E business_type \in FormBusinessTypes, fp \in FpOutcomes :
        LET bd == FormBusinessData(next_id, business_type, 0, clock + 1)
            risk_score == calculate_risk_score(bd)
            terms == generate_deal_terms(bd, risk_score, fp)
            proposal == create_deal_proposal(bd, terms, clock + 1)
        IN  sessions' = [sessions EXCEPT ![s] =
                [pc |-> "loaded",
                 deals |-> save_deal(load_deals(deals), bd, terms, proposal, clock + 1),
                 op |-> [op |-> "save_deal", id |-> next_id],
                 done |-> @.done]]
    /\ clock' = clock + 1
    /\ next_id' = next_id + 1
    /\ UNCHANGED <<app, deals, businesses, last_op>>
    /\ UNCHANGED fnVars
    /\ UNCHANGED uiVars

\* an Approve or Reject button in session s, up to the end of the loop of
\* update_deal_status
BeginUpdateDealStatus(s) ==
    /\ sessions[s].pc = "idle"
    /\ clock < MaxClock
    /\ \E deal_id \in ShownIds(deals), new_status \in Statuses :
        sessions' = [sessions EXCEPT ![s] =
            [pc |-> "loaded",
             deals |-> update_deal_status(load_deals(deals), deal_id, new_status,
                                          clock + 1),
             op |-> [op |-> "update_deal_status", id |-> deal_id,
                     status |-> new_status],
             done |-> @.done]]
    /\ clock' = clock + 1
    /\ UNCHANGED <<app, deals, businesses, next_id, last_op>>
    /\ UNCHANGED fnVars
    /\ UNCHANGED uiVars

\* save_deals in session s: open(DEALS_FILE, 'w') truncates the file
OpenDealsFile(s) ==
    /\ sessions[s].pc = "loaded"
    /\ deals' = <<>>
    /\ sessions' = [sessions EXCEPT ![s].pc = "opened"]
    /\ UNCHANGED <<app, businesses, clock, next_id, last_op>>
    /\ UNCHANGED fnVars
    /\ UNCHANGED uiVars

\* save_deals in session s: json.dump and close; the call returns
DumpDeals(s) ==
    /\ sessions[s].pc = "opened"
    /\ deals' \in save_deals(deals, sessions[s].deals)
    /\ sessions' = [sessions EXCEPT ![s] =
            [pc |-> "idle", deals |-> <<>>, op |-> [op |-> "none"],
             done |-> @.done \cup {sessions[s].op}]]
    /\ last_op' = sessions[s].op
    /\ UNCHANGED <<app, businesses, clock, next_id>>
    /\ UNCHANGED fnVars
    /\ UNCHANGED uiVars

RaceInit ==
    /\ app = "equireal"
    /\ pc = "idle"
    /\ edits = 0
    /\ business_data = None
    /\ risk = None
    /\ deal_terms = None
    /\ StoreIdle

RaceNext ==
    \E s \in Sessions :
        \/ BeginSaveDeal(s)
        \/ BeginUpdateDealStatus(s)
        \/ OpenDealsFile(s)
        \/ DumpDeals(s)

SpecRace == RaceInit /\ [][RaceNext]_vars

(***************************************************************************)
(* equirealty.py: the users table of DatabaseManager.                      *)
(***************************************************************************)
\* hashlib.sha256(password.encode()).hexdigest(): the digest of a password,
\* carried as a value tagged with the text it was computed from (two
\* different passwords of the model have different digests)
sha256_hexdigest(password) == <<"sha256", password>>

\* str(uuid.uuid4()) of create_user: the n-th uuid drawn, as text
UserId(n) == ToString(n)

\* the arguments create_user and authenticate_user are called with
Emails == {"a@x.com", "b@x.com"}
Passwords == {"", "pass", "password1", "password2"}
UserTypes == {"business", "landlord"}
Profiles ==
    {EmptyDict,
     ("first_name" :> "Ann") @@ ("last_name" :> "Lee") @@ ("company" :> "") @@
     ("location" :> "Austin, TX, USA") @@ ("industry" :> "Restaurants")}

\* the INSERT of create_user fails: id is the PRIMARY KEY, email is UNIQUE
IntegrityError(table, user_id, email) ==
    \E i \in 1..Len(table) : table[i]["id"] = user_id \/ table[i]["email"] = email

\* mutant: the email column is not UNIQUE
DatabaseManager_create_user_NotUnique(table, user_id, email, password, user_type, profile_data, now) ==
    [users |-> Append(table,
                  ("id" :> user_id) @@ ("email" :> email) @@
                  ("password_hash" :> sha256_hexdigest(password)) @@
                  ("user_type" :> user_type) @@
                  ("profile_data" :> json_dumps(profile_data)) @@
                  ("created_at" :> now)),
     raised |-> FALSE,
     result |-> user_id]

\* DatabaseManager.create_user: the table after the call, whether the INSERT
\* raised sqlite3.IntegrityError, and the value returned.  profile_data or {}
\* is profile_data for a dict; created_at takes its DEFAULT CURRENT_TIMESTAMP
DatabaseManager_create_user(table, user_id, email, password, user_type, profile_data, now) ==
    IF IntegrityError(table, user_id, email)
    THEN [users |-> table, raised |-> TRUE, result |-> None]
    ELSE [users |-> Append(table,
                      ("id" :> user_id) @@ ("email" :> email) @@
                      ("password_hash" :> sha256_hexdigest(password)) @@
                      ("user_type" :> user_type) @@
                      ("profile_data" :> json_dumps(profile_data)) @@
                      ("created_at" :> now)),
          raised |-> FALSE,
          result |-> user_id]

\* the rows of SELECT ... FROM users WHERE email = ? AND password_hash = ?
SelectUser(table, email, password_hash) ==
    {i \in 1..Len(table) : /\ table[i]["email"] = email
                           /\ table[i]["password_hash"] = password_hash}

\* DatabaseManager.authenticate_user: whether fetchone returned a row, and
\* the value returned.  The profile_data column always holds a JSON text
\* (create_user writes one), so the record carries json.loads of it
DatabaseManager_authenticate_user(table, email, password) ==
    LET rows == SelectUser(table, email, sha256_hexdigest(password))
        first == CHOOSE i \in rows : \A j \in rows : i <= j
    IN  IF rows = {}
        THEN [found |-> FALSE, result |-> None]
        ELSE [found |-> TRUE,
              result |-> ("id" :> table[first]["id"]) @@
                         ("email" :> table[first]["email"]) @@
                         ("user_type" :> table[first]["user_type"]) @@
                         ("profile_data" :> json_loads(table[first]["profile_data"]))]

\* a caller of DatabaseManager.create_user
CreateUser ==
    /\ clock < MaxClock
    /\ \E email \in Emails, password \in Passwords, user_type \in UserTypes,
          profile_data \in Profiles :
        LET call == DatabaseManager_create_user(users, UserId(next_id), email,
                                                password, user_type, profile_data,
                                                clock + 1)
            registration == [id |-> UserId(next_id), email |-> email, password |-> password,
                             user_type |-> user_type, profile_data |-> profile_data]
        IN  /\ users' = call.users
            /\ registrations' = IF call.raised THEN registrations
                                 ELSE registrations \cup {registration}
            /\ last_op' = [op |-> "create_user", email |-> email,
                           password |-> password, raised |-> call.raised,
                           result |-> call.result]
    /\ clock' = clock + 1
    /\ next_id' = next_id + 1
    /\ UNCHANGED <<app, deals, businesses, sessions, session_state, screen>>
    /\ UNCHANGED fnVars

\* a caller of DatabaseManager.authenticate_user
AuthenticateUser ==
    /\ \E email \in Emails, password \in Passwords :
        LET call == DatabaseManager_authenticate_user(users, email, password)
        IN  last_op' = [op |-> "authenticate_user", email |-> email,
                        password |-> password, found |-> call.found,
                        result |-> call.result]
    /\ UNCHANGED <<app, deals, businesses, clock, next_id, sessions, users,
                   session_state, screen, registrations>>
    /\ UNCHANGED fnVars

UsersInit ==
    /\ app = "equirealty"
    /\ pc = "idle"
    /\ edits = 0
    /\ business_data = None
    /\ risk = None
    /\ deal_terms = None
    /\ StoreIdle

UsersNext ==
    \/ CreateUser
    \/ AuthenticateUser

SpecUsers == UsersInit /\ [][UsersNext]_vars

(***************************************************************************)
(* equirealty.py: one browser session of the Streamlit script.  Every      *)
(* action is a run of main with one widget pressed, together with the run  *)
(* that st.rerun() starts when the handler calls it.  session_state is     *)
(* st.session_state, screen is what the last run rendered: "auth" for      *)
(* show_auth_interface, otherwise the page whose handler main called.      *)
(***************************************************************************)
\* main, "Initialize session state"
main_defaults(ss) ==
    LET s1 == IF "authenticated" \in DOMAIN ss THEN ss
              ELSE Put(ss, "authenticated", FALSE)
    IN  IF "page" \in DOMAIN s1 THEN s1 ELSE Put(s1, "page", "home")

\* the pages main routes to a handler of their own
RoutedPages ==
    {"business_dashboard", "business_application", "landlord_dashboard",
     "property_search", "settings"}

\* main, "Authentication check" and "Page routing": what a run renders
Route(ss) ==
    IF ~ss["authenticated"] THEN "auth"
    ELSE IF ss["page"] \in RoutedPages THEN ss["page"]
    ELSE "home"

\* show_application_wizard: form_step and application_data on first use
WizardInit(ss) ==
    LET s1 == IF "form_step" \in DOMAIN ss THEN ss ELSE Put(ss, "form_step", 1)
    IN  IF "application_data" \in DOMAIN s1 THEN s1
        ELSE Put(s1, "application_data", EmptyDict)

\* a run of main with no widget pressed: st.session_state after it
Run(ss) ==
    LET s1 == main_defaults(ss)
    IN  IF Route(s1) = "business_application" THEN WizardInit(s1) ELSE s1

\* show_login_form, the Demo button
demo_user ==
    ("id" :> "demo_user") @@ ("email" :> "demo@equireal.com") @@
    ("user_type" :> "business") @@
    ("profile_data" :> (("first_name" :> "Demo") @@ ("last_name" :> "User")))

\* len(password) of the texts typed into the forms
TextLen(text) ==
    CASE text = "" -> 0
      [] text = "pass" -> 4
      [] OTHER -> 9

\* what is typed into the sign-in and registration forms
FormEmails == Emails \cup {""}
FormPasswords == {"", "pass", "password1"}
FirstNames == {"", "Ann"}

\* show_registration_form: errors is empty
RegistrationValid(first_name, last_name, email, password, confirm_password, terms_agreed) ==
    /\ first_name # "" /\ last_name # "" /\ email # ""
    /\ password # "" /\ confirm_password # ""
    /\ password = confirm_password
    /\ TextLen(password) >= 8
    /\ terms_agreed

\* show_registration_form: profile_data
RegistrationProfile(first_name, last_name) ==
    ("first_name" :> first_name) @@ ("last_name" :> last_name) @@
    ("company" :> "") @@ ("location" :> "Austin, TX, USA") @@
    ("industry" :> "Restaurants")

\* mutant: both account types get the landlord's Dashboard button as well
SidebarPages_LandlordForAll(user) ==
    IF user["user_type"] = "business"
    THEN {"business_dashboard", "business_application", "property_search",
          "landlord_dashboard"}
    ELSE {"landlord_dashboard"}

\* main, "Navigation based on user type": the pages of the sidebar buttons
SidebarPages(user) ==
    IF user["user_type"] = "business"
    THEN {"business_dashboard", "business_application", "property_search"}
    ELSE {"landlord_dashboard"}

\* mutant: Sign Out forgets who is signed in and keeps the rest
SignOutKeys_AuthOnly(ss) == DOMAIN ss \cap {"authenticated", "user"}

\* the Sign Out button: list(st.session_state.keys())
SignOutKeys(ss) == DOMAIN ss

\* the Sign Out button: the session state after the del loop
SignedOut(ss) == [k \in DOMAIN ss \ SignOutKeys(ss) |-> ss[k]]

\* mutant: step 1 is accepted whatever was typed
Step1Valid_Always(business_name, business_type, industry, location, mission_statement) ==
    TRUE

\* step_1_business_basics: all([business_name, business_type, industry,
\* location, mission_statement])
Step1Valid(business_name, business_type, industry, location, mission_statement) ==
    /\ business_name # "" /\ business_type # "" /\ industry # ""
    /\ location # "" /\ mission_statement # ""

\* the step-1 fields, in the order of application_data.update
Step1Fields ==
    {"business_name", "business_type", "industry", "location", "space_size",
     "team_size", "founding_date", "mission_statement"}

\* step_1_business_basics: the dict passed to application_data.update
Step1Data(business_name, industry, mission_statement) ==
    ("business_name" :> business_name) @@ ("business_type" :> "SaaS Startup") @@
    ("industry" :> industry) @@ ("location" :> "Austin, TX, USA") @@
    ("space_size" :> 1500) @@ ("team_size" :> 5) @@
    ("founding_date" :> "2020-01-01") @@ ("mission_statement" :> mission_statement)

\* step_2_financial_details: financial_data
FinancialData(current_revenue) ==
    ("current_revenue" :> current_revenue) @@ ("annual_revenue" :> 0) @@
    ("monthly_expenses" :> 0) @@ ("cash_on_hand" :> 0) @@
    ("runway_months" :> 0) @@ ("funding_raised" :> 0) @@
    ("is_profitable" :> FALSE) @@ ("has_recurring_revenue" :> FALSE) @@
    ("num_customers" :> 0) @@ ("revenue_growth_rate" :> 0)

\* what is typed into step 1 of the wizard
BusinessNames == {"", "Acme", "Bolt"}
MissionStatements == {"", "m"}
FormIndustries == {"Software as a Service (SaaS)"}
FormCurrentRevenues == {0}

\* LandlordDashboard.show_dashboard: the ids of deals[:5] of get_deals, the
\* deals joined with their business, newest first
DashboardDealIds(deal_table, business_table) ==
    LET joined == {i \in 1..Len(deal_table) :
                      \E b \in 1..Len(business_table) :
                          business_table[b]["id"] = deal_table[i]["business_id"]}
        newer(i) == {j \in joined :
                        deal_table[j]["created_at"] > deal_table[i]["created_at"]}
    IN  {deal_table[i]["id"] : i \in {j \in joined : Cardinality(newer(j)) < 5}}

Authenticated == "authenticated" \in DOMAIN session_state /\ session_state["authenticated"]

\* the variables the session actions leave alone
sessionFrame == <<app, sessions, last_op, pc, edits, business_data, risk, deal_terms>>

\* show_login_form, Sign In pressed
SignIn ==
    /\ screen = "auth"
    /\ \E email \in FormEmails, password \in FormPasswords :
        LET call == DatabaseManager_authenticate_user(users, email, password)
            s1 == Put(Put(session_state, "user", call.result), "authenticated", TRUE)
        IN  /\ session_state' = IF email # "" /\ password # "" /\ call.found
                                THEN Run(s1) ELSE session_state
    /\ screen' = Route(session_state')
    /\ UNCHANGED <<deals, businesses, clock, next_id, users, registrations>>
    /\ UNCHANGED sessionFrame

\* show_login_form, Demo pressed
Demo ==
    /\ screen = "auth"
    /\ session_state' =
            Run(Put(Put(session_state, "user", demo_user), "authenticated", TRUE))
    /\ screen' = Route(session_state')
    /\ UNCHANGED <<deals, businesses, clock, next_id, users, registrations>>
    /\ UNCHANGED sessionFrame

\* show_registration_form, Create Account pressed
Register ==
    /\ screen = "auth"
    /\ clock < MaxClock
    /\ \E first_name \in FirstNames, email \in FormEmails, password \in FormPasswords,
          confirm_password \in FormPasswords, user_type \in UserTypes,
          terms_agreed \in BOOLEAN :
        LET profile_data == RegistrationProfile(first_name, "Lee")
            call == DatabaseManager_create_user(users, UserId(next_id), email,
                                                password, user_type, profile_data,
                                                clock + 1)
            registration == [id |-> UserId(next_id), email |-> email,
                             password |-> password, user_type |-> user_type,
                             profile_data |-> profile_data]
        IN  IF RegistrationValid(first_name, "Lee", email, password,
                                 confirm_password, terms_agreed)
            THEN /\ users' = call.users
                 /\ registrations' = IF call.raised THEN registrations
                                      ELSE registrations \cup {registration}
                 /\ clock' = clock + 1
                 /\ next_id' = next_id + 1
            ELSE UNCHANGED <<users, registrations, clock, next_id>>
    /\ UNCHANGED <<deals, businesses, session_state, screen>>
    /\ UNCHANGED sessionFrame

\* main, a sidebar button pressed: Dashboard, New Application, Property
\* Search (by account type) or Settings
Navigate ==
    /\ Authenticated
    /\ \E target \in SidebarPages(session_state["user"]) \cup {"settings"} :
        /\ session_state' = Run(Put(session_state, "page", target))
    /\ screen' = Route(session_state')
    /\ UNCHANGED <<deals, businesses, clock, next_id, users, registrations>>
    /\ UNCHANGED sessionFrame

\* show_business_dashboard (Start Application, Browse Properties) and
\* show_property_search (Apply Now): a button of the page pressed
PageButton ==
    /\ Authenticated
    /\ \E target \in {"business_application", "property_search"} :
        /\ \/ screen = "business_dashboard"
           \/ screen = "property_search" /\ target = "business_application"
        /\ session_state' = Run(Put(session_state, "page", target))
    /\ screen' = Route(session_state')
    /\ UNCHANGED <<deals, businesses, clock, next_id, users, registrations>>
    /\ UNCHANGED sessionFrame

\* main, Sign Out pressed
SignOut ==
    /\ Authenticated
    /\ session_state' = Run(SignedOut(session_state))
    /\ screen' = Route(session_state')
    /\ UNCHANGED <<deals, businesses, clock, next_id, users, registrations>>
    /\ UNCHANGED sessionFrame

\* step_1_business_basics, Next pressed
Step1Submit ==
    /\ screen = "business_application"
    /\ session_state["form_step"] = 1
    /\ \E business_name \in BusinessNames, industry \in FormIndustries,
          mission_statement \in MissionStatements :
        LET data == Step1Data(business_name, industry, mission_statement)
            s1 == Put(session_state, "application_data",
                      Merge(session_state["application_data"], data))
        IN  /\ session_state' =
                    IF Step1Valid(data["business_name"], data["business_type"],
                                  data["industry"], data["location"],
                                  data["mission_statement"])
                    THEN Run(Put(s1, "form_step", 2))
                    ELSE session_state
    /\ screen' = Route(session_state')
    /\ UNCHANGED <<deals, businesses, clock, next_id, users, registrations>>
    /\ UNCHANGED sessionFrame

\* step_2_financial_details, Back pressed
Step2Back ==
    /\ screen = "business_application"
    /\ session_state["form_step"] = 2
    /\ session_state' = Run(Put(session_state, "form_step", 1))
    /\ screen' = Route(session_state')
    /\ UNCHANGED <<deals, businesses, clock, next_id, users, registrations>>
    /\ UNCHANGED sessionFrame

\* step_2_financial_details, Review & Submit pressed
Step2Submit ==
    /\ screen = "business_application"
    /\ session_state["form_step"] = 2
    /\ \E current_revenue \in FormCurrentRevenues :
        LET s1 == Put(session_state, "application_data",
                      Put(session_state["application_data"], "financial_data",
                          FinancialData(current_revenue)))
        IN  session_state' = Run(Put(s1, "form_step", 3))
    /\ screen' = Route(session_state')
    /\ UNCHANGED <<deals, businesses, clock, next_id, users, registrations>>
    /\ UNCHANGED sessionFrame

\* step_3_review_submit, Generate AI Analysis & Proposal pressed: score,
\* generate, render, save_business, save_deal, keep analysis_results
Step3Submit ==
    /\ screen = "business_application"
    /\ session_state["form_step"] = 3
    /\ "financial_data" \in DOMAIN session_state["application_data"]
    /\ Len(deals) < MaxDeals
    /\ clock < MaxClock
    /\ \E fp \in FpOutcomes :
        LET complete_data ==
                Merge(session_state["application_data"],
                      "user_id" :> Get(session_state["user"], "id", "demo_user"))
            ai_analysis == AIAnalysisEngine_calculate_risk_score(complete_data)
            terms == BusinessApplication_generate_deal_terms(complete_data, ai_analysis, fp)
            proposal == EntProposal(complete_data, ai_analysis, terms, next_id + 2,
                                    clock + 1)
            deal_data == [business_id |-> next_id, deal_terms |-> terms,
                          proposal |-> proposal,
                          risk_score |-> ai_analysis["overall_risk"]]
        IN  /\ businesses' = DatabaseManager_save_business(businesses, next_id,
                                                          complete_data, clock + 1)
            /\ deals' = DatabaseManager_save_deal(deals, next_id + 1, deal_data, clock + 1)
            /\ session_state' =
                    Put(session_state, "analysis_results",
                        [ai_analysis |-> ai_analysis, deal_terms |-> terms,
                         proposal |-> proposal])
    /\ clock' = clock + 1
    /\ next_id' = next_id + 3
    /\ UNCHANGED <<screen, users, registrations>>
    /\ UNCHANGED sessionFrame

\* LandlordDashboard.show_deal_card, Approve or Reject pressed on a listed deal
ReviewDeal ==
    /\ screen = "landlord_dashboard"
    /\ clock < MaxClock
    /\ \E deal_id \in DashboardDealIds(deals, businesses), status \in Statuses :
        /\ deals' = DatabaseManager_update_deal_status(deals, deal_id, status)
    /\ session_state' = Run(session_state)
    /\ screen' = Route(session_state')
    /\ clock' = clock + 1
    /\ UNCHANGED <<businesses, next_id, users, registrations>>
    /\ UNCHANGED sessionFrame

\* the first run of main in a new browser session
SessionInit ==
    /\ app = "equirealty"
    /\ pc = "idle"
    /\ edits = 0
    /\ business_data = None
    /\ risk = None
    /\ deal_terms = None
    /\ deals = <<>>
    /\ businesses = <<>>
    /\ clock = 0
    /\ next_id = 1
    /\ last_op = [op |-> "none"]
    /\ sessions = [s \in Sessions |-> IdleSession]
    /\ users = <<>>
    /\ registrations = {}
    /\ session_state = Run(EmptyDict)
    /\ screen = Route(session_state)

SessionNext ==
    \/ SignIn
    \/ Demo
    \/ Register
    \/ Navigate
    \/ PageButton
    \/ SignOut
    \/ Step1Submit
    \/ Step2Back
    \/ Step2Submit
    \/ Step3Submit
    \/ ReviewDeal

SpecSession == SessionInit /\ [][SessionNext]_vars

(***************************************************************************)
(* Properties of the scorers and the generators (SpecFn).                  *)
(***************************************************************************)
Scored == pc = "scored"
TermsMade == pc \in {"done", "given"}
IsA == app = "equireal"
IsB == app = "equirealty"

Abs(x) == IF x >= 0 THEN x ELSE -x

\* C1: the risk score returned by either scorer lies in [10, 90]
\* (equirealty.py: overall_risk, in tenths).
C1_RiskInRange ==
    Scored =>
        /\ IsA => (10 <= risk /\ risk <= 90)
        /\ IsB => (100 <= risk["overall_risk"] /\ risk["overall_risk"] <= 900)

\* a scored record whose unclamped sum is above 90
C1_Witness ==
    Scored /\ IsA /\ BaseScore(business_data, GrowthStep(business_data)) > 90
    /\ risk = 90

\* C2: every generated percentage is within its documented bounds, whatever
\* risk score is passed in: equireal.py [20, 50], [2, 12], [1, 6];
\* equirealty.py [15, 55], [1, 12], [0.5, 6] (tenths of a percent).
C2_TermsInBounds ==
    TermsMade =>
        /\ IsA =>
            /\ 200 <= deal_terms["upfront_rent_percent"]
            /\ deal_terms["upfront_rent_percent"] <= 500
            /\ 20 <= deal_terms["equity_percent"]
            /\ deal_terms["equity_percent"] <= 120
            /\ 10 <= deal_terms["revenue_share_percent"]
            /\ deal_terms["revenue_share_percent"] <= 60
        /\ IsB =>
            /\ 150 <= deal_terms["upfront_rent_percent"]
            /\ deal_terms["upfront_rent_percent"] <= 550
            /\ 10 <= deal_terms["equity_percent"]
            /\ deal_terms["equity_percent"] <= 120
            /\ 5 <= deal_terms["revenue_share_percent"]
            /\ deal_terms["revenue_share_percent"] <= 60

\* terms generated for a risk score far above 90, the upper clamps binding
C2_Witness ==
    pc = "given" /\ IsA /\ risk = 1000
    /\ deal_terms["upfront_rent_percent"] = 500
    /\ deal_terms["equity_percent"] = 120
    /\ deal_terms["revenue_share_percent"] = 60

\* C3: the rounded dollar figures satisfy
\* |monthly_rent + deferred_amount - monthly_market_rent| <= 1
\* (equirealty.py: monthly_savings for deferred_amount).
C3_RentIdentity ==
    TermsMade =>
        /\ IsA => Abs(deal_terms["monthly_rent"] + deal_terms["deferred_amount"]
                      - deal_terms["monthly_market_rent"]) <= 1
        /\ IsB => Abs(deal_terms["monthly_rent"] + deal_terms["monthly_savings"]
                      - deal_terms["monthly_market_rent"]) <= 1

\* terms whose rounded parts do not add up exactly
C3_Witness ==
    TermsMade /\ IsA
    /\ deal_terms["monthly_rent"] + deal_terms["deferred_amount"]
       # deal_terms["monthly_market_rent"]

\* the record with current_revenue replaced
WithRevenue(bd, r) == Put(bd, "current_revenue", r)

RevenueGiven ==
    /\ Scored /\ IsA
    /\ "current_revenue" \in DOMAIN business_data
    /\ business_data["current_revenue"] >= 0

\* C4 as claimed: all else fixed, a larger non-negative current_revenue never
\* gives a higher score.
C4_Original ==
    RevenueGiven =>
        \A r2 \in RevenueValues :
            r2 >= business_data["current_revenue"] =>
                calculate_risk_score(WithRevenue(business_data, r2)) <= risk

\* C4 amended: all else fixed, for non-negative r1 <= r2 whose growth-realism
\* adjustments are equal (as they are whenever projected_revenue_12m is 0,
\* negative or absent), the score with r2 is never greater than with r1.
C4_MonotoneGivenGrowth ==
    RevenueGiven =>
        \A r2 \in RevenueValues :
            (/\ r2 >= business_data["current_revenue"]
             /\ GrowthStep(WithRevenue(business_data, r2)) = GrowthStep(business_data))
            => calculate_risk_score(WithRevenue(business_data, r2)) <= risk

\* a scored record for which a larger revenue, the growth step unchanged,
\* gives a strictly lower score
C4_Witness ==
    /\ RevenueGiven
    /\ \E r2 \in RevenueValues :
        /\ r2 > business_data["current_revenue"]
        /\ GrowthStep(WithRevenue(business_data, r2)) = GrowthStep(business_data)
        /\ calculate_risk_score(WithRevenue(business_data, r2)) < risk

\* C5 as claimed: an unrecognized business_type scores as 'Other', and an
\* unrecognized industry scores as 'Other'.
C5_UnknownAsOther ==
    (Scored /\ IsA) =>
        /\ ("business_type" \in DOMAIN business_data
            /\ business_data["business_type"] \notin DOMAIN business_type_risk)
           => risk = calculate_risk_score(Put(business_data, "business_type", "Other"))
        /\ ("industry" \in DOMAIN business_data
            /\ business_data["industry"] \notin DOMAIN industry_risk)
           => risk = calculate_risk_score(Put(business_data, "industry", "Other"))

\* C6 as claimed: team_size = 0 scores as team_size = 1.
C6_ZeroTeamAsOne ==
    (Scored /\ IsA /\ Get(business_data, "team_size", 1) = 0) =>
        risk = calculate_risk_score(Put(business_data, "team_size", 1))

\* C7: when current_revenue is 0 the growth-realism step adds nothing: the
\* score is the one computed with that step removed, whatever
\* projected_revenue_12m is.
C7_NoGrowthStepAtZeroRevenue ==
    (Scored /\ IsA /\ Get(business_data, "current_revenue", 0) = 0) =>
        risk = FinalScore(BaseScore(business_data, 0))

\* a scored record with zero revenue, a positive projection and a score
\* strictly inside the clamp
C7_Witness ==
    /\ Scored /\ IsA
    /\ "current_revenue" \in DOMAIN business_data
    /\ business_data["current_revenue"] = 0
    /\ Get(business_data, "projected_revenue_12m", 0) > 0
    /\ 10 < risk /\ risk < 90

NumericOptional ==
    {"current_revenue", "projected_revenue_12m", "funding_raised", "runway_months"}

FlagOptional == {"has_customers", "has_revenue"}

\* C8: a negative or absent current_revenue, projected_revenue_12m,
\* funding_raised or runway_months scores as 0, and an absent has_customers
\* or has_revenue scores as False.
C8_DefaultsForNegativeOrAbsent ==
    (Scored /\ IsA) =>
        /\ \A k \in NumericOptional :
            (k \notin DOMAIN business_data \/ business_data[k] < 0)
            => risk = calculate_risk_score(Put(business_data, k, 0))
        /\ \A k \in FlagOptional :
            k \notin DOMAIN business_data
            => risk = calculate_risk_score(Put(business_data, k, FALSE))

\* a scored record with a negative runway_months and a score strictly inside
\* the clamp
C8_Witness ==
    /\ Scored /\ IsA
    /\ "runway_months" \in DOMAIN business_data
    /\ business_data["runway_months"] < 0
    /\ 10 < risk /\ risk < 90

\* the record has every field of the scenario, with the scenario's value
AgreesWith(bd, scenario) ==
    \A k \in DOMAIN scenario : k \in DOMAIN bd /\ bd[k] = scenario[k]

\* the record with the three fields the scenarios leave open set
WithOpenFields(bd, projected_12m, burn_rate, has_funding) ==
    Put(Put(Put(bd, "projected_revenue_12m", projected_12m), "burn_rate", burn_rate),
        "has_funding", has_funding)

\* C14: calculate_risk_score returns 90 for the Scenario A record and 10 for
\* the Scenario B record, whatever projected_revenue_12m, burn_rate and
\* has_funding are (set or absent).
C14_Scenarios ==
    (Scored /\ IsA) =>
        /\ AgreesWith(business_data, ScenarioA) =>
            /\ risk = 90
            /\ \A p \in ProjectedValues, b \in FieldValues("equireal", "burn_rate"),
                  f \in BOOLEAN :
                calculate_risk_score(WithOpenFields(business_data, p, b, f)) = 90
        /\ AgreesWith(business_data, ScenarioB) =>
            /\ risk = 10
            /\ \A p \in ProjectedValues, b \in FieldValues("equireal", "burn_rate"),
                  f \in BOOLEAN :
                calculate_risk_score(WithOpenFields(business_data, p, b, f)) = 10

\* the Scenario B record scored with a projection above 20 times its revenue
\* (the +25 of the growth-realism step applies)
C14_Witness ==
    /\ Scored /\ IsA
    /\ AgreesWith(business_data, ScenarioB)
    /\ GrowthStep(business_data) = 25
    /\ risk = 10

\* the terms were generated for risk score 50 and no financial adjustment of
\* equirealty.py applies (not profitable, current_revenue not above 100000)
BaselineTerms ==
    /\ pc = "given"
    /\ IsA => risk = 50
    /\ IsB =>
        /\ risk["overall_risk"] = 500
        /\ FinancialAdjustment(Get(business_data, "financial_data", EmptyDict), 1, 1) = 0

\* the per-square-foot rate of each program
MarketRate == IF IsA THEN 25 ELSE 35

\* C15: at risk score 50 with no secondary adjustment, for every space_size,
\* upfront_rent_percent is 30.0, the annual market rent is space_size x 25
\* (x 35 in equirealty.py), monthly_market_rent is a whole number nearest to
\* annual / 12 and monthly_rent a whole number nearest to 0.30 x annual / 12;
\* space_size 1000 in equireal.py gives 25000, 2083 and 625.
C15_BaselineRent ==
    BaselineTerms =>
        LET space_size == Get(business_data, "space_size", 1000)
            annual == space_size * MarketRate
        IN  /\ deal_terms["upfront_rent_percent"] = 300
            /\ IsA => deal_terms["annual_market_rent"] = annual
            /\ Abs(12 * deal_terms["monthly_market_rent"] - annual) <= 6
            /\ Abs(120 * deal_terms["monthly_rent"] - 3 * annual) <= 60
            /\ (IsA /\ space_size = 1000) =>
                /\ deal_terms["annual_market_rent"] = 25000
                /\ deal_terms["monthly_market_rent"] = 2083
                /\ deal_terms["monthly_rent"] = 625

\* baseline terms of equireal.py for a space whose monthly market rent rounds
\* up (5000 sq ft: 125000 / 12 = 10416.67)
C15_Witness ==
    /\ BaselineTerms /\ IsA
    /\ Get(business_data, "space_size", 1000) = 5000
    /\ deal_terms["monthly_market_rent"] = 10417
    /\ deal_terms["monthly_rent"] = 3125

\* C16 as claimed: for every application scored and given terms by the
\* equirealty.py pipeline, the rent reduction 100 - upfront_rent_percent is
\* between 20% and 60% (tenths of a percent).
C16_ReductionRange ==
    (pc = "done" /\ IsB) =>
        /\ 200 <= 1000 - deal_terms["upfront_rent_percent"]
        /\ 1000 - deal_terms["upfront_rent_percent"] <= 600

\* the growth-realism adjustment the scorer applied to the record
GrowthApplied(bd) == BaseScore(bd, GrowthStep(bd)) - BaseScore(bd, 0)

\* C17 as claimed: with current_revenue > 0 and projected_revenue_12m > 0,
\* a ratio g above 20 adds +25, g below 1.2 adds +20, and for every g from
\* 1.2 up to 2, both ends included, the adjustment is never positive.
C17_GrowthTiers ==
    LET current_revenue == Get(business_data, "current_revenue", 0)
        projected_12m == Get(business_data, "projected_revenue_12m", 0)
    IN  (Scored /\ IsA /\ current_revenue > 0 /\ projected_12m > 0) =>
            /\ projected_12m > 20 * current_revenue
                => GrowthApplied(business_data) = 25
            /\ 5 * projected_12m < 6 * current_revenue
                => GrowthApplied(business_data) = 20
            /\ (5 * projected_12m >= 6 * current_revenue
                /\ projected_12m <= 2 * current_revenue)
                => GrowthApplied(business_data) <= 0

\* the three percentages of a terms dict
Percentages(terms) ==
    <<terms["upfront_rent_percent"], terms["equity_percent"],
      terms["revenue_share_percent"]>>

\* the terms the generator of the program returns for the record and a risk
\* score (the percentages do not depend on how the dollar products round)
TermsAt(r) ==
    LET fp == [rent |-> FALSE, deferred |-> FALSE]
    IN  IF IsA THEN generate_deal_terms(business_data, r, fp)
        ELSE BusinessApplication_generate_deal_terms(
                 business_data, Put(risk, "overall_risk", r), fp)

\* the risk score the terms were generated for
RiskGiven == IF IsA THEN risk ELSE risk["overall_risk"]

\* C18: for a fixed profile and risk scores r1 <= r2, each of
\* upfront_rent_percent, equity_percent and revenue_share_percent generated
\* for r2 is at least the one generated for r1, in both generators.
C18_TermsMonotoneInRisk ==
    pc = "given" =>
        \A r2 \in RiskInputs(app) :
            r2 >= RiskGiven =>
                \A n \in 1..3 : Percentages(TermsAt(r2))[n] >= Percentages(deal_terms)[n]

\* terms generated for a risk score for which a higher one raises all three
\* percentages
C18_Witness ==
    /\ pc = "given"
    /\ \E r2 \in RiskInputs(app) :
        /\ r2 > RiskGiven
        /\ \A n \in 1..3 : Percentages(TermsAt(r2))[n] > Percentages(deal_terms)[n]

\* C19 as claimed: all else fixed, a larger runway_months never gives a
\* higher score, and the +30 runway penalty is applied exactly when
\* runway_months is below 3.
C19_Runway ==
    LET runway_months == Get(business_data, "runway_months", 0)
    IN  (Scored /\ IsA) =>
            /\ \A m2 \in RunwayValues :
                m2 >= runway_months =>
                    calculate_risk_score(Put(business_data, "runway_months", m2)) <= risk
            /\ (BaseScore(business_data, 0)
                   - BaseScore(Put(business_data, "runway_months", 25), 0) = 30 + 15)
                <=> runway_months < 3

\* C20: in generate_deal_terms of equireal.py revenue_share_years is 4 for
\* 'SaaS Startup' and 'E-commerce', 2 for 'Restaurant' and 3 for every other
\* or absent business_type, whatever the risk score is.
C20_RevenueShareYears ==
    (TermsMade /\ IsA) =>
        deal_terms["revenue_share_years"] =
            (IF "business_type" \notin DOMAIN business_data THEN 3
             ELSE IF business_data["business_type"] \in {"SaaS Startup", "E-commerce"}
                  THEN 4
             ELSE IF business_data["business_type"] = "Restaurant" THEN 2
             ELSE 3)

\* terms generated for a record without business_type at a risk score far
\* above the scorer's range
C20_Witness ==
    /\ pc = "given" /\ IsA
    /\ "business_type" \notin DOMAIN business_data
    /\ risk = 1000
    /\ deal_terms["revenue_share_years"] = 3

\* C21: revenue_trigger is a whole number nearest to the maximum of
\* 1.5 x current_revenue and 5000, and so never below 5000, for every
\* current_revenue: positive, 0, negative or absent.
C21_RevenueTrigger ==
    (TermsMade /\ IsA) =>
        LET current_revenue == Get(business_data, "current_revenue", 0)
        IN  /\ deal_terms["revenue_trigger"] >= 5000
            /\ Abs(2 * deal_terms["revenue_trigger"]
                   - Max(3 * current_revenue, 2 * 5000)) <= 1

\* terms for a negative current_revenue, the floor applied
C21_Witness ==
    /\ TermsMade /\ IsA
    /\ "current_revenue" \in DOMAIN business_data
    /\ business_data["current_revenue"] < 0
    /\ deal_terms["revenue_trigger"] = 5000

\* C22: AIAnalysisEngine.calculate_risk_score returns industry_risk from the
\* table, 50 for an industry outside it; financial_risk 50, -20 above
\* 100000, -10 above 50000, +20 at exactly 0, and -15 when profitable;
\* team_risk 50, -15 for 5..50, +20 below 3; and overall_risk
\* 0.4 x industry + 0.4 x financial + 0.2 x team of those three, clamped to
\* [10, 90] (scores in tenths).
C22_WeightedScore ==
    (Scored /\ IsB) =>
        LET financial_data == Get(business_data, "financial_data", EmptyDict)
            current_revenue == Get(financial_data, "current_revenue", 0)
            team_size == Get(business_data, "team_size", 1)
            industry ==
                IF "industry" \in DOMAIN business_data
                   /\ business_data["industry"] \in DOMAIN industry_risks
                THEN industry_risks[business_data["industry"]] ELSE 50
            financial ==
                50 + (IF current_revenue > 100000 THEN -20
                      ELSE IF current_revenue > 50000 THEN -10
                      ELSE IF current_revenue = 0 THEN 20 ELSE 0)
                   + (IF Get(financial_data, "is_profitable", FALSE) THEN -15 ELSE 0)
            team ==
                50 + (IF team_size >= 5 /\ team_size <= 50 THEN -15
                      ELSE IF team_size < 3 THEN 20 ELSE 0)
            combined == 4 * industry + 4 * financial + 2 * team
        IN  /\ risk["industry_risk"] = 10 * industry
            /\ risk["financial_risk"] = 10 * financial
            /\ risk["team_risk"] = 10 * team
            /\ risk["overall_risk"] =
                (IF combined < 100 THEN 100 ELSE IF combined > 900 THEN 900 ELSE combined)

\* a scored application of an industry outside the table, with the three
\* sub-scores different from one another
C22_Witness ==
    /\ Scored /\ IsB
    /\ "industry" \in DOMAIN business_data
    /\ business_data["industry"] \notin DOMAIN industry_risks
    /\ risk["industry_risk"] # risk["team_risk"]
    /\ risk["industry_risk"] # risk["financial_risk"]
    /\ risk["team_risk"] # risk["financial_risk"]

\* the record with one key of its financial_data replaced
WithFinancial(bd, k, v) ==
    Put(bd, "financial_data", Put(Get(bd, "financial_data", EmptyDict), k, v))

\* the terms equirealty.py generates for a record at the risk score the
\* state's terms were generated for
EntTermsOf(bd) ==
    BusinessApplication_generate_deal_terms(bd, risk, [rent |-> FALSE, deferred |-> FALSE])

\* the first terms are no higher in upfront rent and equity than the second,
\* and equal in revenue share
NoHigherThan(terms, reference) ==
    /\ terms["upfront_rent_percent"] <= reference["upfront_rent_percent"]
    /\ terms["equity_percent"] <= reference["equity_percent"]
    /\ terms["revenue_share_percent"] = reference["revenue_share_percent"]

\* C23: in BusinessApplication.generate_deal_terms, at a fixed risk score,
\* the terms of a profitable applicant are no higher in upfront_rent_percent
\* and equity_percent than those of the same applicant not profitable, and
\* equal in revenue_share_percent; the same for current_revenue above 100000
\* against the same applicant with any current_revenue not above 100000.
C23_SecondaryAdjustments ==
    (TermsMade /\ IsB) =>
        LET financial_data == Get(business_data, "financial_data", EmptyDict)
        IN  /\ Truthy(Get(financial_data, "is_profitable", FALSE)) =>
                NoHigherThan(deal_terms,
                             EntTermsOf(WithFinancial(business_data, "is_profitable", FALSE)))
            /\ Get(financial_data, "current_revenue", 0) > 100000 =>
                \A c \in {v \in EntRevenueValues : v <= 100000} :
                    NoHigherThan(deal_terms,
                                 EntTermsOf(WithFinancial(business_data, "current_revenue", c)))

\* terms of a profitable applicant with revenue above 100000, strictly lower
\* in upfront rent and in equity than without either condition
C23_Witness ==
    /\ TermsMade /\ IsB
    /\ Truthy(Get(Get(business_data, "financial_data", EmptyDict), "is_profitable", FALSE))
    /\ Get(Get(business_data, "financial_data", EmptyDict), "current_revenue", 0) > 100000
    /\ LET plain == EntTermsOf(WithFinancial(
                         WithFinancial(business_data, "is_profitable", FALSE),
                         "current_revenue", 100000))
       IN  /\ deal_terms["upfront_rent_percent"] < plain["upfront_rent_percent"]
           /\ deal_terms["equity_percent"] < plain["equity_percent"]
           /\ deal_terms["revenue_share_percent"] = plain["revenue_share_percent"]

\* C24: when generate_deal_terms of equireal.py is given the score
\* calculate_risk_score returned, upfront_rent_percent is in [20, 42],
\* equity_percent in [2, 8.2] and revenue_share_percent in [1.4, 4.6]
\* (tenths of a percent): the maxima 50, 12 and 6 and the revenue-share
\* minimum 1 are not reached.
C24_PipelineRanges ==
    (pc = "done" /\ IsA) =>
        /\ 200 <= deal_terms["upfront_rent_percent"]
        /\ deal_terms["upfront_rent_percent"] <= 420
        /\ 20 <= deal_terms["equity_percent"]
        /\ deal_terms["equity_percent"] <= 82
        /\ 14 <= deal_terms["revenue_share_percent"]
        /\ deal_terms["revenue_share_percent"] <= 46

\* the terms of a record scored 90: each percentage at the top of its range
C24_Witness ==
    /\ pc = "done" /\ IsA
    /\ risk = 90
    /\ deal_terms["upfront_rent_percent"] = 420
    /\ deal_terms["equity_percent"] = 82
    /\ deal_terms["revenue_share_percent"] = 46

\* the weighted average of the three sub-scores returned, in tenths
ReturnedAverage ==
    (4 * risk["industry_risk"] + 4 * risk["financial_risk"] + 2 * risk["team_risk"])
        \div 10

\* C25: in AIAnalysisEngine.calculate_risk_score the weighted average of the
\* sub-scores lies in [23, 70] before the clamp, so the clamp to [10, 90]
\* changes nothing and overall_risk is in [23, 70] (tenths).
C25_ClampNeverBinds ==
    (Scored /\ IsB) =>
        /\ 230 <= ReturnedAverage /\ ReturnedAverage <= 700
        /\ risk["overall_risk"] = ReturnedAverage

\* an application scored at the low end of the range
C25_Witness ==
    /\ Scored /\ IsB
    /\ ReturnedAverage = 230
    /\ risk["overall_risk"] = 230

(***************************************************************************)
(* Properties of the deal store (Spec).                                    *)
(***************************************************************************)
\* the step added no deal: it is a status update
IsStatusUpdate == last_op'["op"] = "update_deal_status" /\ Len(deals') = Len(deals)

\* the keys of record d whose value in d2 differs, or that d2 lacks or adds
ChangedKeys(d, d2) ==
    {k \in DOMAIN d \cup DOMAIN d2 :
        k \notin DOMAIN d \/ k \notin DOMAIN d2 \/ d[k] # d2[k]}

\* C9 as claimed: every deal is persisted 'pending', a status is always one
\* of pending, approved, rejected, and a status only ever changes from
\* pending to approved or from pending to rejected.
C9_Lifecycle ==
    /\ [](\A i \in 1..Len(deals) :
            deals[i]["status"] \in {"pending", "approved", "rejected"})
    /\ [][\A i \in 1..Len(deals') :
            i > Len(deals) => deals'[i]["status"] = "pending"]_vars
    /\ [][\A i \in 1..Len(deals) :
            deals'[i]["status"] # deals[i]["status"]
            => deals[i]["status"] = "pending"]_vars

WrittenFields(a, new_status) ==
    IF a = "equireal"
    THEN {"status", "updated_at"} \cup
         (IF new_status = "approved" THEN {"approved_at"} ELSE {"rejected_at"})
    ELSE {"status"}

StoredTerms(a, d) ==
    IF a = "equireal"
    THEN [k \in DOMAIN d \cap TermFields |-> d[k]]
    ELSE json_loads(d["deal_terms"])

\* C11: the risk score and every deal-terms field of a persisted record are
\* the values the scorer and the generator returned at that deal's
\* submission: a record added by a step holds what that submission computed,
\* and no later step changes them in, or removes, an existing record.
C11_PersistedVerbatim ==
    [][/\ Len(deals') >= Len(deals)
       /\ \A i \in 1..Len(deals) :
            /\ StoredTerms(app, deals'[i]) = StoredTerms(app, deals[i])
            /\ deals'[i]["risk_score"] = deals[i]["risk_score"]
       /\ \A i \in (Len(deals) + 1)..Len(deals') :
            /\ last_op'["op"] = "save_deal"
            /\ StoredTerms(app, deals'[i]) = last_op'["deal_terms"]
            /\ deals'[i]["risk_score"] = last_op'["risk_score"]]_vars

\* a first deal that was approved and then followed by a second submission
C11_Witness ==
    /\ Len(deals) = 2
    /\ deals[1]["status"] = "approved"
    /\ last_op["op"] = "save_deal"
    /\ StoredTerms(app, deals[2]) = last_op["deal_terms"]
    /\ deals[1]["risk_score"] # deals[2]["risk_score"]

\* the positions of the stored deals with the id
Matching(stored, deal_id) == {i \in 1..Len(stored) : stored[i]["id"] = deal_id}

\* C29: update_deal_status changes at most the one record whose id matches:
\* the number and order of the deals and every other record are unchanged,
\* and with no matching id the store is unchanged; equireal.py returns
\* nothing, equirealty.py returns True exactly when a row matched.
C29_UpdateFrame ==
    [][IsStatusUpdate =>
        /\ Len(deals') = Len(deals)
        /\ \A i \in 1..Len(deals) :
            deals[i]["id"] # last_op'["id"] => deals'[i] = deals[i]
        /\ \A i \in 1..Len(deals) : deals'[i]["id"] = deals[i]["id"]
        /\ Cardinality({i \in 1..Len(deals) : deals'[i] # deals[i]}) <= 1
        /\ Matching(deals, last_op'["id"]) = {} => deals' = deals
        /\ app = "equireal" => last_op'["result"] = None
        /\ app = "equirealty" =>
            last_op'["result"] = (Matching(deals, last_op'["id"]) # {})]_vars

\* two stored deals of equirealty.py, the last update matched the second and
\* returned True, the first is still pending
C29_Witness ==
    /\ app = "equirealty"
    /\ Len(deals) = 2
    /\ last_op["op"] = "update_deal_status"
    /\ last_op["result"] = TRUE
    /\ deals[2]["id"] = last_op["id"]
    /\ deals[2]["status"] = last_op["status"]
    /\ deals[1]["status"] = "pending"

\* the fields of a rendered text that show the current time
TimestampFields == {"generated", "valid_until", "entered_on", "date"}

\* a rendered text with its timestamp fields left out
Timeless(text) == [k \in DOMAIN text \ TimestampFields |-> text[k]]

\* the businesses row a deal row of equirealty.py refers to
BusinessOf(d) ==
    businesses[CHOOSE j \in 1..Len(businesses) :
                   businesses[j]["id"] = d["business_id"]]

\* C13 as claimed: rendering a document again from the inputs of an earlier
\* rendering, at any time, gives the earlier text except for its timestamp
\* fields: create_deal_proposal and create_contract_template of equireal.py,
\* BusinessApplication.generate_proposal of equirealty.py (which draws its
\* proposal id itself).
C13_Reproducible ==
    /\ app = "equireal" =>
        /\ \A i \in 1..Len(deals) : \A now \in 0..MaxClock :
            Timeless(create_deal_proposal(deals[i], StoredTerms(app, deals[i]), now))
                = Timeless(deals[i]["proposal"])
        /\ last_op["op"] = "create_contract_template" =>
            \A now \in 0..MaxClock :
                Timeless(create_contract_template(last_op["deal"], now))
                    = Timeless(last_op["result"])
    /\ app = "equirealty" =>
        \A i \in 1..Len(deals) : \A now \in 0..MaxClock, proposal_id \in DealIds :
            Timeless(EntProposal(BusinessOf(deals[i]),
                                 [overall_risk |-> deals[i]["risk_score"]],
                                 StoredTerms(app, deals[i]), proposal_id, now))
                = Timeless(deals[i]["proposal"])

(***************************************************************************)
(* Properties of the store under concurrent sessions (SpecRace).           *)
(***************************************************************************)
\* the calls of save_deal and update_deal_status that have returned
Completed == UNION {sessions[s].done : s \in Sessions}

\* the statuses the completed updates of a deal have set
StatusesSet(deal_id) ==
    {o.status : o \in {c \in Completed :
                          c.op = "update_deal_status" /\ c.id = deal_id}}

\* C12 as claimed: once every persistence call has completed, the store
\* holds every submitted deal, and every deal that was approved or rejected
\* is there with a status one of its updates has set.
C12_NoLostUpdate ==
    (\A s \in Sessions : sessions[s].pc = "idle") =>
        /\ \A o \in Completed :
            o.op = "save_deal" => o.id \in ShownIds(deals)
        /\ \A deal_id \in DealIds :
            StatusesSet(deal_id) # {} =>
                \E i \in 1..Len(deals) :
                    /\ deals[i]["id"] = deal_id
                    /\ deals[i]["status"] \in StatusesSet(deal_id)

(***************************************************************************)
(* Properties of the users table (SpecUsers).                              *)
(***************************************************************************)
\* the record authenticate_user returns for a registration
UserOf(registration) ==
    ("id" :> registration.id) @@ ("email" :> registration.email) @@
    ("user_type" :> registration.user_type) @@
    ("profile_data" :> registration.profile_data)

\* C30: no two users share an email; create_user with a registered email
\* raises inside, returns None and leaves the users table as it was, and any
\* other create_user adds one row; authenticate_user returns the user's
\* record exactly when a create_user with that email and that password
\* returned a user id, and None otherwise
C30_UniqueEmails ==
    /\ [](\A i, j \in 1..Len(users) : users[i]["email"] = users[j]["email"] => i = j)
    /\ [][(clock' # clock /\ last_op'.op = "create_user")
            => IF \E i \in 1..Len(users) : users[i]["email"] = last_op'.email
               THEN /\ last_op'.raised
                    /\ last_op'.result = None
                    /\ users' = users
               ELSE /\ ~last_op'.raised
                    /\ last_op'.result = UserId(next_id)
                    /\ Len(users') = Len(users) + 1
                    /\ SubSeq(users', 1, Len(users)) = users]_vars
    /\ [](last_op.op = "authenticate_user"
            => LET made == {r \in registrations : /\ r.email = last_op.email
                                                 /\ r.password = last_op.password}
               IN  IF made = {}
                   THEN ~last_op.found /\ last_op.result = None
                   ELSE last_op.found /\ \E r \in made : last_op.result = UserOf(r))

\* the first registrant signs in after a second create_user with the same
\* email and another password was turned away
C30_Witness ==
    /\ last_op.op = "authenticate_user"
    /\ last_op.found
    /\ Len(users) = 1
    /\ clock >= 2
    /\ \E r \in registrations : r.email = last_op.email /\ r.profile_data # EmptyDict

(***************************************************************************)
(* Properties of the browser session of equirealty.py (SpecSession).       *)
(***************************************************************************)
FormStep == Get(session_state, "form_step", 0)
ApplicationData == Get(session_state, "application_data", EmptyDict)
UserType == session_state["user"]["user_type"]

\* the step-1 fields step_1_business_basics refuses to leave empty
RequiredStep1Fields ==
    {"business_name", "business_type", "industry", "location", "mission_statement"}

\* C26: once the wizard has been opened form_step is 1, 2 or 3; at step 2
\* and 3 application_data holds the step-1 fields, the required ones not
\* empty; at step 3 it holds financial_data; and a business row and a deal
\* row are inserted only by a run that shows step 3 with financial_data
\* present, one of each
C26_WizardSteps ==
    /\ []("form_step" \in DOMAIN session_state
            => /\ FormStep \in {1, 2, 3}
               /\ "application_data" \in DOMAIN session_state)
    /\ [](FormStep >= 2
            => /\ Step1Fields \subseteq DOMAIN ApplicationData
               /\ \A k \in RequiredStep1Fields : ApplicationData[k] # "")
    /\ [](FormStep = 3 => "financial_data" \in DOMAIN ApplicationData)
    /\ [][(Len(deals') # Len(deals) \/ Len(businesses') # Len(businesses))
            => /\ screen = "business_application"
               /\ FormStep = 3
               /\ "financial_data" \in DOMAIN ApplicationData
               /\ Len(deals') = Len(deals) + 1
               /\ Len(businesses') = Len(businesses) + 1]_vars

\* an application was submitted at step 3 after step 1 was filled in again
C26_Witness ==
    /\ FormStep = 3
    /\ Len(deals) >= 1
    /\ "analysis_results" \in DOMAIN session_state
    /\ ApplicationData["business_name"] = "Bolt"
    /\ businesses[1]["business_name"] = "Acme"

\* C27: while nobody is signed in the run renders the sign-in interface
\* only, the session state changes only by signing in, and no business or
\* deal row is written; the run after Sign Out starts from an empty session
\* state: not authenticated, page back to 'home', and user, form_step,
\* application_data and analysis_results gone
C27_SignedOutGate ==
    /\ [](~Authenticated => screen = "auth")
    /\ [][~Authenticated
            => /\ deals' = deals
               /\ businesses' = businesses
               /\ (session_state' = session_state \/ Authenticated')]_vars
    /\ [][(Authenticated /\ ~Authenticated')
            => /\ session_state' = (("authenticated" :> FALSE) @@ ("page" :> "home"))
               /\ screen' = "auth"]_vars

\* signed out after an application was submitted in the session
C27_Witness ==
    /\ ~Authenticated
    /\ screen = "auth"
    /\ Len(deals) >= 1
    /\ DOMAIN session_state = {"authenticated", "page"}

BusinessPages == {"business_dashboard", "business_application", "property_search"}

\* C28: the landlord dashboard is rendered, and a deal's status changed,
\* only for a signed-in user whose user_type is not 'business'; the business
\* dashboard, the application wizard and the property search are rendered
\* only for a signed-in user whose user_type is 'business'
C28_PagesByAccountType ==
    /\ [](screen = "landlord_dashboard" => Authenticated /\ UserType # "business")
    /\ [](screen \in BusinessPages => Authenticated /\ UserType = "business")
    /\ [][(\E i \in 1..Len(deals) : deals'[i]["status"] # deals[i]["status"])
            => /\ screen = "landlord_dashboard"
               /\ Authenticated
               /\ UserType # "business"]_vars

\* a landlord has approved the deal a business user submitted before
C28_Witness ==
    /\ screen = "landlord_dashboard"
    /\ UserType = "landlord"
    /\ \E i \in 1..Len(deals) : deals[i]["status"] = "approved"

====
